---- MODULE Spec2Model ----
(***************************************************************************)
(* A model of the {json:api} data-binding layer: Resource (resources.js),  *)
(* Collection (collections.js) and the parts of JsonApi (apis.js) they     *)
(* call.  JavaScript values are a tagged union, objects live in a heap and *)
(* are named by their position in it, so that aliasing and in-place        *)
(* mutation are what they are in the program.                              *)
(***************************************************************************)
EXTENDS Integers, Sequences, FiniteSets, TLC

VARIABLES
  heap,   \* the objects (Resource and Collection instances), by object id
  pend,   \* the operations that await their response
  log,    \* the requests handed to the transport, in order
  last,   \* the operation called last, and how it ended
  pre,    \* the heap as it was when that operation was called
  prev,   \* what `last` was when that operation was called
  nops    \* the number of operations called so far

vars == <<heap, pend, log, last, pre, prev, nops>>

----------------------------------------------------------------------------
(* Bounds of the model *)

MaxOps == 2        \* operations called on the resource in one behaviour
MaxCalls == 3      \* fetch calls and builder calls on the collections
MaxQueries == 2    \* calls of the list methods and of get in one behaviour
MaxPages == 3      \* pages the server has of a list
MaxApiOps == 3     \* calls on the connections in one behaviour

----------------------------------------------------------------------------
(* JavaScript values *)

Null == [kind |-> "null"]
Undefined == [kind |-> "undefined"]
Str(s) == [kind |-> "str", v |-> s]
Obj(f) == [kind |-> "obj", f |-> f]
List(s) == [kind |-> "list", items |-> s]
Ref(o) == [kind |-> "ref", oid |-> o]

NoKeys == [k \in {} |-> Null]

\* obj[k] = v on a plain object held as a function
Put(f, k, v) == [x \in (DOMAIN f) \cup {k} |-> IF x = k THEN v ELSE f[x]]

\* delete obj[k]
Del(f, k) == [x \in (DOMAIN f) \ {k} |-> f[x]]

\* { ...f, ...g }
Spread(f, g) == [x \in (DOMAIN f) \cup (DOMAIN g) |->
                   IF x \in DOMAIN g THEN g[x] ELSE f[x]]

\* _.pickBy(f, (value, key) => key in keys); f may be undefined
PickBy(f, keys) == [x \in (DOMAIN f) \cap keys |-> f[x]]

\* value.k on a plain object
Get(v, k) == IF v.kind = "obj" /\ k \in DOMAIN v.f THEN v.f[k] ELSE Undefined

\* true, false and the numbers
Bool(b) == [kind |-> "bool", b |-> b]
Num(n) == [kind |-> "num", n |-> n]

\* JavaScript truthiness, on the values of this model
Truthy(v) == v \notin {Null, Undefined, Str(""), Bool(FALSE), Num(0)}

\* `${v}` inside a template string
KeyStr(v) == CASE v.kind = "str" -> v.v
               [] v.kind = "null" -> "null"
               [] v.kind = "undefined" -> "undefined"
               [] OTHER -> "[object]"

\* The order in which `for (key in obj)` visits the keys of the model: the
\* names of the model in one fixed insertion order.
AllKeys == <<"name", "meta", "parent", "children", "0", "1", "2", "related",
            "data">>

\* The property names of the elements of an array
IndexKey(i) == <<"0", "1", "2">>[i]

KeyOrder(S) == LET F[i \in 0..Len(AllKeys)] ==
                     IF i = 0 THEN <<>>
                     ELSE IF AllKeys[i] \in S THEN Append(F[i-1], AllKeys[i])
                          ELSE F[i-1]
               IN F[Len(AllKeys)]

----------------------------------------------------------------------------
(* utils.js: the shape tests *)

isNull(v) == v = Null
isObject(v) == v.kind = "obj"
isList(v) == v.kind = "list"
hasData(v) == isObject(v) /\ "data" \in DOMAIN v.f
hasLinks(v) == isObject(v) /\ "links" \in DOMAIN v.f
isResourceIdentifier(v) == isObject(v) /\ {"type", "id"} \subseteq DOMAIN v.f
isResource(h, v) == v.kind = "ref" /\ h[v.oid].cls = "Resource"
isCollection(h, v) == v.kind = "ref" /\ h[v.oid].cls = "Collection"

Size(f) == Cardinality(DOMAIN f)

isSingularFetched(h, v) ==
  isResource(h, v) /\ (Size(h[v.oid].attributes) > 0 \/
                       Size(h[v.oid].relationships) > 0)

isPluralFetched(h, v) == isCollection(h, v) /\ h[v.oid].data # Null

----------------------------------------------------------------------------
(* Objects *)

\* A Resource instance before its constructor has run _overwrite.
BlankResource(type) ==
  [cls |-> "Resource", TYPE |-> type, id |-> Undefined,
   attributes |-> NoKeys, relationships |-> NoKeys, related |-> NoKeys,
   links |-> NoKeys, redirect |-> Undefined]

\* new Collection(API, url, params)
NewCollection(url, params) ==
  [cls |-> "Collection", url |-> url, params |-> params,
   data |-> Null, next |-> Null, previous |-> Null]

\* Collection.fromData(API, resources, url): a Collection seeded with its rows
fromData(resources, url) ==
  [cls |-> "Collection", url |-> url, params |-> Null,
   data |-> List(resources), next |-> Null, previous |-> Null]

\* value.id, for what the code reads it from
IdOf(h, v) == IF v.kind = "ref"
              THEN (IF h[v.oid].cls = "Resource" THEN h[v.oid].id ELSE Undefined)
              ELSE Get(v, "id")

\* value.type
TypeOf(h, v) == IF v.kind = "ref" THEN Undefined ELSE Get(v, "type")

asResourceIdentifier(h, o) == Obj([type |-> h[o].TYPE, id |-> h[o].id])

asRelationship(h, o) == Obj([data |-> asResourceIdentifier(h, o)])

\* The own enumerable properties of a value, as { type, ...props } reads them
OwnProps(h, v) ==
  CASE v.kind = "obj" -> v.f
    [] v.kind = "list" ->
         [k \in {IndexKey(i) : i \in 1..Len(v.items)} |->
            v.items[CHOOSE i \in 1..Len(v.items) : IndexKey(i) = k]]
    [] v.kind = "ref" /\ h[v.oid].cls = "Resource" ->
         [id |-> h[v.oid].id,
          attributes |-> Obj(h[v.oid].attributes),
          relationships |-> Obj(h[v.oid].relationships),
          related |-> Obj(h[v.oid].related),
          links |-> Obj(h[v.oid].links),
          redirect |-> h[v.oid].redirect]
    [] OTHER -> NoKeys

\* _.every(value, item => isResourceIdentifier(item) || isResource(item))
everyIdentifierOrResource(h, v) ==
  CASE v.kind = "list" ->
         \A i \in 1..Len(v.items) :
            isResourceIdentifier(v.items[i]) \/ isResource(h, v.items[i])
    [] v.kind = "obj" ->
         \A k \in DOMAIN v.f :
            isResourceIdentifier(v.f[k]) \/ isResource(h, v.f[k])
    [] v.kind = "str" -> v.v = ""
    [] OTHER -> TRUE

\* resources.js 82-113: does a flattened field value go to `relationships`
looksLikeRelationship(h, value) ==
  \/ isResourceIdentifier(value)
  \/ isResource(h, value)
  \/ (isObject(value) /\
       (\/ hasLinks(value)
        \/ (hasData(value) /\
             (\/ isResourceIdentifier(value.f["data"])
              \/ isResource(h, value.f["data"])
              \/ everyIdentifierOrResource(h, value.f["data"])))))
  \/ (isList(value) /\ Len(value.items) > 0 /\
      everyIdentifierOrResource(h, value))

ReservedKeys == {"id", "attributes", "relationships", "links", "redirect",
                 "type", "included"}

----------------------------------------------------------------------------
(* Resource construction and the relationship resolver.  Every operator    *)
(* that may allocate returns the new heap h, and err = TRUE when the code  *)
(* throws; v is the value returned.                                        *)

RECURSIVE new(_, _), overwrite(_, _, _), setRelated(_, _, _, _, _),
          asResource(_, _), includedLoop(_, _, _, _),
          relatedLoop(_, _, _, _, _, _), itemsLoop(_, _, _, _, _, _)

\* What an allocating call hands back
Result(h, v, err) == [h |-> h, v |-> v, err |-> err]

\* this.related[name], undefined when the key is absent
relatedOf(h, o, name) ==
  IF name \in DOMAIN h[o].related THEN h[o].related[name] ELSE Undefined

\* The `type` that { type, ...props } takes out of a value
typeProp(props) == IF "type" \in DOMAIN props THEN props["type"] ELSE Undefined

\* JsonApi.new({ type, ...props }): an instance of the class of `type`,
\* built as object Len(h) + 1
newResult(o, r) == Result(r.h, Ref(o), r.err)

new(h, v) ==
  IF v.kind \in {"null", "undefined"} THEN Result(h, Undefined, TRUE)
  ELSE newResult(Len(h) + 1,
                 overwrite(Append(h, BlankResource(typeProp(OwnProps(h, v)))),
                           Len(h) + 1, Del(OwnProps(h, v), "type")))

\* apis.js 113-115: the value asResource hands to `new`
unwrapped(h, v) ==
  IF hasData(v) THEN v.f["data"]
  ELSE IF isCollection(h, v) THEN h[v.oid].data ELSE v

\* JsonApi.asResource(value)
asResource(h, v) ==
  IF isNull(v) \/ isResource(h, v) THEN Result(h, v, FALSE)
  ELSE IF v.kind \in {"undefined", "str"} THEN Result(h, Undefined, TRUE)
       ELSE new(h, unwrapped(h, v))

\* A fault the properties are tested against: the key of the lookup leaves
\* the id out.
includedKeyOfType(h, x) == <<KeyStr(TypeOf(h, x)), "">>

\* `${x.type}__${x.id}`
includedKey(h, x) == <<KeyStr(TypeOf(h, x)), KeyStr(IdOf(h, x))>>

\* resources.js 131-135: the lookup of the side-loaded resources
includedStep(items, i, m, key, r) ==
  IF r.err THEN [h |-> r.h, m |-> m, err |-> TRUE]
  ELSE includedLoop(r.h, items, i + 1, Put(m, key, r.v))

includedLoop(h, items, i, m) ==
  IF i > Len(items) THEN [h |-> h, m |-> m, err |-> FALSE]
  ELSE IF items[i].kind \in {"null", "undefined"}
       THEN [h |-> h, m |-> m, err |-> TRUE]
       ELSE includedStep(items, i, m, includedKey(h, items[i]),
                         asResource(h, items[i]))

\* resources.js 165-176: the identifiers and the resources of a data list
itemsPush(h, items, i, datas, resources, includedMap, resource, data) ==
  itemsLoop(h, items, i + 1, Append(datas, data),
            Append(resources,
                   IF includedKey(h, data) \in DOMAIN includedMap
                   THEN includedMap[includedKey(h, data)] ELSE resource),
            includedMap)

itemsStep(items, i, datas, resources, includedMap, r) ==
  IF r.err \/ r.v = Null
  THEN [h |-> r.h, datas |-> datas, resources |-> resources, err |-> TRUE]
  ELSE itemsPush(r.h, items, i, datas, resources, includedMap, r.v,
                 asResourceIdentifier(r.h, r.v.oid))

itemsLoop(h, items, i, datas, resources, includedMap) ==
  IF i > Len(items)
  THEN [h |-> h, datas |-> datas, resources |-> resources, err |-> FALSE]
  ELSE itemsStep(items, i, datas, resources, includedMap,
                 asResource(h, items[i]))

\* A fault the properties are tested against: the related Collection is
\* replaced whenever the relationship is normalized.
pluralChangedAlways(h, cur, resources) == TRUE

\* resources.js 184-194: is the related Collection to be replaced
pluralChanged(h, cur, resources) ==
  \/ ~Truthy(cur)
  \/ ~isCollection(h, cur)
  \/ ~Truthy(h[cur.oid].data)
  \/ Len(h[cur.oid].data.items) # Len(resources)
  \/ \E i \in 1..Len(resources) :
        \/ IdOf(h, h[cur.oid].data.items[i]) # IdOf(h, resources[i])
        \/ Size(h[resources[i].oid].attributes) > 0
        \/ Size(h[resources[i].oid].relationships) > 0

\* A fault the properties are tested against: the related Resource is
\* replaced whenever the relationship is normalized.
singularChangedAlways(h, cur, resource) == TRUE

\* resources.js 232-236: is the related Resource to be replaced
singularChanged(h, cur, resource) ==
  \/ (IF Truthy(cur) THEN IdOf(h, cur) ELSE Undefined) # IdOf(h, resource)
  \/ Size(h[resource.oid].attributes) > 0
  \/ Size(h[resource.oid].relationships) > 0

\* resources.js 179-182: the url of the related Collection
relatedUrl(rel) ==
  IF "links" \in DOMAIN rel /\ "related" \in DOMAIN rel["links"].f
  THEN rel["links"].f["related"] ELSE Null

\* resources.js 178-198: the plural branch, once the data list is resolved
pluralStore(h, o, name, rel, resources) ==
  IF pluralChanged(h, relatedOf(h, o, name), resources)
  THEN [h |-> [Append(h, fromData(resources, relatedUrl(rel)))
                 EXCEPT ![o].relationships = Put(@, name, Obj(rel)),
                        ![o].related = Put(@, name, Ref(Len(h) + 1))],
        err |-> FALSE]
  ELSE [h |-> [h EXCEPT ![o].relationships = Put(@, name, Obj(rel))],
        err |-> FALSE]

pluralStep(o, name, rel0, it) ==
  IF it.err THEN [h |-> it.h, err |-> TRUE]
  ELSE pluralStore(it.h, o, name, Put(rel0, "data", List(it.datas)),
                   it.resources)

\* resources.js 155-163: the plural branch, up to the data list
setPlural(h, o, name, rel0, list, includedMap) ==
  IF ~isList(list) THEN [h |-> h, err |-> FALSE]
  ELSE pluralStep(o, name, rel0,
                  itemsLoop(h, list.items, 1, <<>>, <<>>, includedMap))

\* resources.js 222-238: the singular branch, once the resource is there
singularStore(h, o, name, entry, resource) ==
  IF singularChanged(h, relatedOf(h, o, name), resource)
  THEN [h |-> [h EXCEPT ![o].relationships = Put(@, name, Obj(entry)),
                        ![o].related = Put(@, name, resource)],
        err |-> FALSE]
  ELSE [h |-> [h EXCEPT ![o].relationships = Put(@, name, Obj(entry))],
        err |-> FALSE]

singularStep(o, name, data, links, includedMap, r) ==
  IF r.err THEN [h |-> r.h, err |-> TRUE]
  ELSE singularStore(r.h, o, name,
                     IF Truthy(links) THEN [data |-> data, links |-> links]
                     ELSE [data |-> data],
                     IF includedKey(r.h, data) \in DOMAIN includedMap
                     THEN includedMap[includedKey(r.h, data)] ELSE r.v)

\* resources.js 202-221: the singular branch, up to the resource
setSingular(h, o, name, value, includedMap) ==
  IF isObject(value)
  THEN singularStep(o, name,
                    IF hasData(value) THEN value.f["data"] ELSE value,
                    IF hasData(value) /\ hasLinks(value)
                    THEN value.f["links"] ELSE Null,
                    includedMap,
                    new(h, IF hasData(value) THEN value.f["data"] ELSE value))
  ELSE IF isResource(h, value)
       THEN singularStep(o, name, asResourceIdentifier(h, value.oid), Null,
                         includedMap, Result(h, value, FALSE))
       ELSE [h |-> h, err |-> TRUE]

\* Resource._setRelated(relationshipName, value, includedMap)
setRelated(h, o, name, value, includedMap) ==
  IF ~Truthy(value)
  THEN [h |-> [h EXCEPT ![o].relationships = Put(@, name, Null),
                        ![o].related = Put(@, name, Null)],
        err |-> FALSE]
  ELSE IF \/ isList(value)
          \/ (isObject(value) /\ isList(Get(value, "data")))
          \/ (isObject(value) /\ hasLinks(value) /\ ~hasData(value))
       THEN setPlural([h EXCEPT ![o].relationships =
                         Put(@, name,
                             Obj(IF isObject(value) /\ hasLinks(value)
                                 THEN [links |-> value.f["links"]]
                                 ELSE NoKeys))],
                      o, name,
                      IF isObject(value) /\ hasLinks(value)
                      THEN [links |-> value.f["links"]] ELSE NoKeys,
                      IF hasData(value) THEN value.f["data"] ELSE value,
                      includedMap)
       ELSE setSingular(h, o, name, value, includedMap)

\* resources.js 136-139: _setRelated on every key of `relationships`
relatedStep(o, rels, keys, i, includedMap, r) ==
  IF r.err THEN r ELSE relatedLoop(r.h, o, rels, keys, i + 1, includedMap)

relatedLoop(h, o, rels, keys, i, includedMap) ==
  IF i > Len(keys) THEN [h |-> h, err |-> FALSE]
  ELSE relatedStep(o, rels, keys, i, includedMap,
                   setRelated(h, o, keys[i], rels[keys[i]], includedMap))

\* A fault the properties are tested against: no flattened field is taken
\* for a relationship.
relPropsNone(h, data) == {}

\* resources.js 80-120: the flattened fields that go to `relationships`
relProps(h, data) ==
  {k \in (DOMAIN data) \ ReservedKeys : looksLikeRelationship(h, data[k])}

\* A fault the properties are tested against: a re-seed that is given no
\* redirect keeps the one the resource has.
overwriteFieldsKept(h, o, id, attributes, links, redirect, relKeys) ==
  [h EXCEPT ![o].id = id,
            ![o].attributes = attributes,
            ![o].links = links,
            ![o].redirect = IF redirect = Null THEN @ ELSE redirect,
            ![o].relationships = PickBy(@, relKeys),
            ![o].related = PickBy(@, relKeys)]

\* A fault the properties are tested against: the re-seed merges the
\* attributes it is given into those the resource has.
overwriteFieldsMerged(h, o, id, attributes, links, redirect, relKeys) ==
  [h EXCEPT ![o].id = id,
            ![o].attributes = Spread(@, attributes),
            ![o].links = links,
            ![o].redirect = redirect,
            ![o].relationships = PickBy(@, relKeys),
            ![o].related = PickBy(@, relKeys)]

\* resources.js 122-130: the fields written before the relationships
overwriteFields(h, o, id, attributes, links, redirect, relKeys) ==
  [h EXCEPT ![o].id = id,
            ![o].attributes = attributes,
            ![o].links = links,
            ![o].redirect = redirect,
            ![o].relationships = PickBy(@, relKeys),
            ![o].related = PickBy(@, relKeys)]

overwriteRelated(o, rels, inc) ==
  IF inc.err THEN [h |-> inc.h, err |-> TRUE]
  ELSE relatedLoop(inc.h, o, rels, KeyOrder(DOMAIN rels), 1, inc.m)

overwriteWith(h, o, data, id, attributes, relationships, links, redirect, included, rp) ==
  IF ~isObject(attributes) \/ ~isObject(relationships) \/ ~isObject(links) \/
     ~isList(included)
  THEN [h |-> h, err |-> TRUE]
  ELSE overwriteRelated(
         o,
         [k \in (DOMAIN relationships.f) \cup rp |->
            IF k \in rp THEN data[k] ELSE relationships.f[k]],
         includedLoop(
           overwriteFields(
             h, o, id,
             [k \in (DOMAIN attributes.f) \cup
                    (((DOMAIN data) \ ReservedKeys) \ rp) |->
                IF k \in ((DOMAIN data) \ ReservedKeys) \ rp THEN data[k]
                ELSE attributes.f[k]],
             links.f, redirect, (DOMAIN relationships.f) \cup rp),
           included.items, 1, NoKeys))

\* A destructured parameter with its default
Default(data, k, d) ==
  IF k \in DOMAIN data /\ data[k] # Undefined THEN data[k] ELSE d

\* Resource._overwrite(data)
overwrite(h, o, data) ==
  IF Truthy(Default(data, "type", Null)) /\
     Default(data, "type", Null) # h[o].TYPE
  THEN [h |-> h, err |-> TRUE]
  ELSE overwriteWith(h, o, data,
                     Default(data, "id", Null),
                     Default(data, "attributes", Obj(NoKeys)),
                     Default(data, "relationships", Obj(NoKeys)),
                     Default(data, "links", Obj(NoKeys)),
                     Default(data, "redirect", Null),
                     Default(data, "included", List(<<>>)),
                     relProps(h, data))

----------------------------------------------------------------------------
(* Resource: the synchronous parts of the operations *)

\* Resource.get(key)
get(h, o, key) ==
  IF key \in DOMAIN h[o].related THEN h[o].related[key]
  ELSE IF key \in DOMAIN h[o].attributes THEN h[o].attributes[key]
       ELSE Undefined

\* resources.js 254: relationships[key] = related[key].asRelationship()
setStep(o, key, r) ==
  IF r.err THEN r
  ELSE IF ~isResource(r.h, relatedOf(r.h, o, key))
       THEN [h |-> r.h, err |-> TRUE]
       ELSE [h |-> [r.h EXCEPT ![o].relationships =
                      Put(@, key,
                          asRelationship(r.h, relatedOf(r.h, o, key).oid))],
             err |-> FALSE]

\* Resource.set(key, value)
set(h, o, key, value) ==
  IF key \in DOMAIN h[o].relationships
  THEN setStep(o, key, setRelated(h, o, key, value, NoKeys))
  ELSE [h |-> [h EXCEPT ![o].attributes = Put(@, key, value)], err |-> FALSE]

\* Resource.getItemUrl()
getItemUrl(h, o) ==
  IF "self" \in DOMAIN h[o].links /\ Truthy(h[o].links["self"])
  THEN h[o].links["self"]
  ELSE Str("/" \o KeyStr(h[o].TYPE) \o "/" \o KeyStr(h[o].id))

\* Resource.getCollectionUrl()
getCollectionUrl(h, o) == Str("/" \o KeyStr(h[o].TYPE))

\* resources.js 373-377: the overrides of save, applied with set in key order
RECURSIVE setLoop(_, _, _, _, _)
setLoopStep(o, props, keys, i, r) ==
  IF r.err THEN r ELSE setLoop(r.h, o, props, keys, i + 1)

setLoop(h, o, props, keys, i) ==
  IF i > Len(keys) THEN [h |-> h, err |-> FALSE]
  ELSE setLoopStep(o, props, keys, i, set(h, o, keys[i], props[keys[i]]))

\* resources.js 388-395 and 408-415: the default field list
defaultFields(h, o, fields) ==
  IF fields = <<>>
  THEN KeyOrder(DOMAIN h[o].attributes) \o KeyOrder(DOMAIN h[o].related)
  ELSE fields

\* resources.js 443-445: one relationship, serialized for the request body.
\* The resource asResource builds is dropped once it has been serialized.
serialized(r) ==
  IF r.err \/ ~isResource(r.h, r.v) THEN [v |-> Undefined, err |-> TRUE]
  ELSE [v |-> asRelationship(r.h, r.v.oid), err |-> FALSE]

savedRelationship(h, o, field) ==
  serialized(asResource(h, h[o].relationships[field]))

\* The elements of a list
Range(s) == {s[i] : i \in 1..Len(s)}

\* resources.js 433-449: what the loop throws at one field, if anything
fieldError(h, o, field, saved) ==
  IF field \in DOMAIN h[o].attributes THEN "none"
  ELSE IF field \in DOMAIN h[o].relationships
       THEN (IF saved[field].err THEN "TypeError" ELSE "none")
       ELSE "Unknown field"

\* The first field of the list the loop throws at, 0 when there is none
firstError(h, o, fields, saved) ==
  IF \A i \in 1..Len(fields) : fieldError(h, o, fields[i], saved) = "none"
  THEN 0
  ELSE CHOOSE i \in 1..Len(fields) :
         /\ fieldError(h, o, fields[i], saved) # "none"
         /\ \A j \in 1..(i - 1) : fieldError(h, o, fields[j], saved) = "none"

\* resources.js 430-452, with the relationships already serialized
generatedData(h, o, fields, attrs, saved, bad) ==
  [v |-> Spread(IF attrs = {} THEN NoKeys
                ELSE [attributes |->
                        Obj([k \in attrs |-> h[o].attributes[k]])],
                IF DOMAIN saved = {} THEN NoKeys
                ELSE [relationships |->
                        Obj([k \in DOMAIN saved |-> saved[k].v])]),
   err |-> bad # 0,
   error |-> IF bad = 0 THEN "none"
             ELSE fieldError(h, o, fields[bad], saved)]

generatedFrom(h, o, fields, attrs, saved) ==
  generatedData(h, o, fields, attrs, saved, firstError(h, o, fields, saved))

\* Resource._generateDataForSaving(fields)
generateDataForSaving(h, o, fields) ==
  generatedFrom(h, o, fields, Range(fields) \cap DOMAIN h[o].attributes,
                [k \in (Range(fields) \ DOMAIN h[o].attributes) \cap
                       DOMAIN h[o].relationships |->
                   savedRelationship(h, o, k)])

\* resources.js 397-403: the request of _saveExisting
saveExistingRequest(h, o, generated) ==
  [method |-> "patch", url |-> getItemUrl(h, o), params |-> Null,
   data |-> Obj([data |-> Obj(Spread(asResourceIdentifier(h, o).f,
                                     generated))])]

\* resources.js 417-426: the request of _saveNew
saveNewRequest(h, o, generated) ==
  [method |-> "post", url |-> getCollectionUrl(h, o), params |-> Null,
   data |-> Obj([data |->
     Obj(Spread(IF Truthy(h[o].id)
                THEN [type |-> h[o].TYPE, id |-> h[o].id]
                ELSE [type |-> h[o].TYPE],
                generated))])]

\* A fault the properties are tested against: save never takes the branch
\* of _saveExisting.
saveRequestAlwaysNew(h, o, generated) == saveNewRequest(h, o, generated)

\* resources.js 379-384: save routes on this.id
saveRequest(h, o, generated) ==
  IF Truthy(h[o].id) THEN saveExistingRequest(h, o, generated)
  ELSE saveNewRequest(h, o, generated)

\* resources.js 457-471: the related map, reconciled with the response
RECURSIVE postSaveLoop(_, _, _, _, _)
postSaveNew(related, data, keys, i, r) ==
  IF r.err THEN [h |-> r.h, related |-> related, err |-> TRUE]
  ELSE postSaveLoop(r.h, Put(related, keys[i], r.v), data, keys, i + 1)

postSaveStep(h, related, data, keys, i, rel, oldId, newId) ==
  IF oldId = newId THEN postSaveLoop(h, related, data, keys, i + 1)
  ELSE IF ~Truthy(newId)
       THEN postSaveLoop(h, Del(related, keys[i]), data, keys, i + 1)
       ELSE postSaveNew(related, data, keys, i, new(h, rel))

postSaveLoop(h, related, data, keys, i) ==
  IF i > Len(keys) THEN [h |-> h, related |-> related, err |-> FALSE]
  ELSE IF \/ ~Truthy(related[keys[i]])
          \/ ~Truthy(Get(data, "relationships"))
          \/ ~Truthy(Get(Get(data, "relationships"), keys[i]))
          \/ ~Truthy(Get(Get(Get(data, "relationships"), keys[i]), "data"))
       THEN [h |-> h, related |-> related, err |-> TRUE]
       ELSE postSaveStep(
              h, related, data, keys, i,
              Get(Get(data, "relationships"), keys[i]),
              IdOf(h, related[keys[i]]),
              Get(Get(Get(Get(data, "relationships"), keys[i]), "data"), "id"))

\* resources.js 472-475: the re-seed that ends _postSave
postSaveOverwrite(o, data, rels, l) ==
  IF l.err THEN [h |-> l.h, err |-> TRUE]
  ELSE overwrite(l.h, o,
                 Spread([relationships |-> Obj(Spread(rels, l.related))],
                        Del(data.f, "relationships")))

\* Resource._postSave(response)
postSave(h, o, response) ==
  postSaveOverwrite(o, Get(response.body, "data"),
                    IF Truthy(Get(Get(response.body, "data"), "relationships"))
                    THEN Get(Get(response.body, "data"), "relationships").f
                    ELSE NoKeys,
                    postSaveLoop(h, h[o].related, Get(response.body, "data"),
                                 KeyOrder(DOMAIN h[o].related), 1))

\* resources.js 269-286: the document reload re-seeds the resource from
reloadData(h, o, response) ==
  IF response.kind = "redirect"
  THEN [id |-> h[o].id,
        attributes |-> Obj(h[o].attributes),
        relationships |-> Obj(Spread(h[o].relationships, h[o].related)),
        links |-> Obj(h[o].links),
        redirect |-> response.location]
  ELSE IF "included" \in DOMAIN response.body.f
       THEN Put(Get(response.body, "data").f, "included",
                response.body.f["included"])
       ELSE Get(response.body, "data").f

\* resources.js 269-286: what reload does with its response
reloaded(h, o, response) == overwrite(h, o, reloadData(h, o, response))

\* A fault the properties are tested against: change replaces the related
\* object whatever its id.
changedAlways(h, o, field, value) ==
  [h EXCEPT ![o].relationships =
              Put(@, field,
                  Obj(Put(IF Truthy(h[o].relationships[field])
                          THEN h[o].relationships[field].f ELSE NoKeys,
                          "data",
                          IF Truthy(value)
                          THEN asResourceIdentifier(h, value.oid)
                          ELSE value))),
            ![o].related = Put(@, field, value)]

\* resources.js 521-527: what change does once its request has succeeded
changed(h, o, field, value) ==
  LET cur == h[o].relationships[field]
      rel0 == IF Truthy(cur) THEN cur.f ELSE NoKeys
      ident == IF Truthy(value) THEN asResourceIdentifier(h, value.oid)
               ELSE value
      h1 == [h EXCEPT ![o].relationships = Put(@, field,
                                               Obj(Put(rel0, "data", ident)))]
      curRelated == relatedOf(h, o, field)
      oldId == IF Truthy(curRelated) THEN IdOf(h, curRelated) ELSE Undefined
      newId == IF Truthy(value) THEN IdOf(h, value) ELSE Undefined
  IN IF oldId # newId
     THEN [h1 EXCEPT ![o].related = Put(@, field, value)]
     ELSE h1

\* resources.js 543-547: the url of a relationship edit
relationshipUrl(h, o, field) ==
  LET self == Get(Get(h[o].relationships[field], "links"), "self")
  IN IF field \in DOMAIN h[o].relationships /\ self # Undefined THEN self
     ELSE Str("/" \o KeyStr(h[o].TYPE) \o "/" \o KeyStr(h[o].id) \o
              "/relationships/" \o field)

----------------------------------------------------------------------------
(* The scenario: the objects that exist before the resource is built, the  *)
(* documents it is built from and the documents the server answers with.   *)

Ident(type, id) == Obj([type |-> Str(type), id |-> Str(id)])

\* api.Parent instances the caller holds: a stub with id 2, and a parent
\* with id 3 whose attributes have been fetched.
ExternalHeap ==
  new(new(<<>>, Ident("parents", "2")).h,
      Obj([type |-> Str("parents"), id |-> Str("3"),
           attributes |-> Obj([name |-> Str("Hera")])])).h

ParentStub == Ref(Len(ExternalHeap) - 1)
ParentFull == Ref(Len(ExternalHeap))

\* The resource under test is the first object built after those.
Self == Len(ExternalHeap) + 1

ParentLinks == Obj([self |-> Str("/children/1/relationships/parent"),
                    related |-> Str("/parents/2")])
ChildrenLinks == Obj([related |-> Str("/children/1/children")])

ParentEnvelope == Obj([data |-> Ident("parents", "2")])
ParentEnvelopeLinks == Obj([data |-> Ident("parents", "2"),
                            links |-> ParentLinks])
ChildrenLinksOnly == Obj([links |-> ChildrenLinks])
ChildrenData == Obj([data |-> List(<<Ident("children", "7")>>),
                     links |-> ChildrenLinks])

IncludedParent == Obj([type |-> Str("parents"), id |-> Str("2"),
                       attributes |-> Obj([name |-> Str("Zeus")])])

\* The relationships a resource of the scenario is built with
CtorRelationships ==
  {[parent |-> v] : v \in {Null, ParentEnvelope, ParentEnvelopeLinks, ParentStub}}
  \cup {[children |-> v] : v \in {ChildrenLinksOnly, ChildrenData}}
  \cup {[parent |-> ParentEnvelopeLinks, children |-> ChildrenLinksOnly]}
  \cup {NoKeys}

\* new api.Child(data): the documents of the scenario
CtorInputs ==
  {[id |-> id, attributes |-> Obj([name |-> Str("x")]),
    relationships |-> Obj(rels)] :
      id \in {Null, Str("1")}, rels \in CtorRelationships}
  \cup {[id |-> Str("1"), parent |-> Ident("parents", "2"),
         included |-> List(<<IncludedParent>>)],
        [id |-> Str("1"),
         attributes |-> Obj([name |-> Str("x"), parent |-> Str("p")]),
         relationships |-> Obj([parent |-> ParentEnvelope])]}

\* new api.Child(data)
Constructed(data) ==
  overwrite(Append(ExternalHeap, BlankResource(Str("children"))), Self, data)

\* The bodies the server answers a GET, PATCH or POST of a child with
ChildDocs ==
  {Obj([data |-> Obj([type |-> Str("children"), id |-> Str("1"),
                      attributes |-> Obj([name |-> Str("srv")])])]),
   Obj([data |-> Obj([type |-> Str("children"), id |-> Str("1"),
                      attributes |-> Obj([name |-> Str("srv")]),
                      relationships |-> Obj([parent |-> ParentEnvelopeLinks])])]),
   Obj([data |-> Obj([type |-> Str("children"), id |-> Str("1"),
                      attributes |-> Obj([name |-> Str("srv")]),
                      relationships |->
                        Obj([parent |-> Obj([data |-> Ident("parents", "3")])])])])}

\* The bodies the server answers the GET of a parent with: one with
\* attributes, one with the identity alone
ParentDocs(id) ==
  {Obj([data |-> Obj([type |-> Str("parents"), id |-> id,
                      attributes |-> Obj([name |-> Str("Zeus")])])]),
   Obj([data |-> Obj([type |-> Str("parents"), id |-> id])])}

Location == Str("http://redirect.com")

OkResponse(body) == [kind |-> "ok", body |-> body, location |-> Null]
RedirectResponse == [kind |-> "redirect", body |-> Null, location |-> Location]
FailResponse == [kind |-> "fail", body |-> Null, location |-> Null]

\* What the transport may answer the GET of heap object o with
GetResponses(h, o) ==
  {OkResponse(b) : b \in IF h[o].TYPE = Str("children") THEN ChildDocs
                          ELSE ParentDocs(h[o].id)}
  \cup {RedirectResponse, FailResponse}

\* The bodies the server answers a PATCH or POST of a child with: those, and
\* one that reports the relationship as empty
SaveDocs ==
  ChildDocs \cup
  {Obj([data |-> Obj([type |-> Str("children"), id |-> Str("1"),
                      attributes |-> Obj([name |-> Str("srv")]),
                      relationships |->
                        Obj([parent |-> Obj([data |-> Null])])])])}

SaveResponses == {OkResponse(b) : b \in SaveDocs} \cup {FailResponse}

EditResponses == {OkResponse(Null), FailResponse}

----------------------------------------------------------------------------
(* The operations on the resource.  An operation that sends a request has  *)
(* two steps: the call, up to its await, and the rest, run when the        *)
(* transport has answered.                                                 *)

NoArgs == [key |-> "", value |-> Undefined, force |-> FALSE, fields |-> <<>>,
           props |-> NoKeys]

\* The record kept of an operation: what was called, on which object, how
\* many requests had been sent before it, how it ended, what it returned (of
\* a save that threw: the error) and what the transport answered.
Called(op, args, target, out, ret) ==
  [op |-> op, args |-> args, target |-> target, nlog |-> Len(log),
   out |-> out, ret |-> ret, resp |-> "none", body |-> Undefined,
   step |-> "call"]

NoCall == [op |-> "none", args |-> NoArgs, target |-> 0, nlog |-> 0,
           out |-> "ok", ret |-> Undefined, resp |-> "none",
           body |-> Undefined, step |-> "call"]

Idle == pend = <<>> /\ nops < MaxOps

\* An operation ended without awaiting anything.
Return(op, args, h, out, ret) ==
  /\ heap' = h
  /\ last' = Called(op, args, Self, out, ret)
  /\ pre' = heap
  /\ prev' = last
  /\ nops' = nops + 1
  /\ UNCHANGED <<pend, log>>

\* An operation handed a request to the transport and awaits the answer.
Await(op, args, h, target, request) ==
  /\ heap' = h
  /\ log' = Append(log, request)
  /\ pend' = <<[op |-> op, args |-> args, target |-> target]>>
  /\ last' = Called(op, args, target, "pending", Undefined)
  /\ pre' = heap
  /\ prev' = last
  /\ nops' = nops + 1

\* The awaited operation ended.
Resume(h, out, ret, resp) ==
  /\ heap' = h
  /\ pend' = <<>>
  /\ last' = [last EXCEPT !.out = out, !.ret = ret, !.resp = resp,
                          !.step = "resume"]
  /\ UNCHANGED <<log, pre, prev, nops>>

Outcome(err) == IF err THEN "threw" ELSE "ok"

GetRequest(h, o) ==
  [method |-> "get", url |-> getItemUrl(h, o), params |-> Null,
   data |-> Undefined]

\* resource.set(key, value)
SetDone(args, r) == Return("set", args, r.h, Outcome(r.err), Undefined)

Set(key, value) ==
  /\ Idle
  /\ SetDone([NoArgs EXCEPT !.key = key, !.value = value],
             set(heap, Self, key, value))

\* A fault the properties are tested against: fetch without its test of the
\* `related` link.
FetchMissAnyLink(args, name, relationship, related, url) ==
  IF Get(relationship, "data").kind \in {"obj", "list"}
  THEN IF ~Truthy(related) \/ ~isResource(heap, related)
       THEN Return("fetch", args, heap, "threw", Str("TypeError"))
       ELSE Await("fetch", args, heap, related.oid,
                  GetRequest(heap, related.oid))
  ELSE Return("fetch", args,
              [Append(heap, NewCollection(url, Null))
                 EXCEPT ![Self].related = Put(@, name, Ref(Len(heap) + 1))],
              "ok", Ref(Len(heap) + 1))

\* A fault the properties are tested against: the Collection of the
\* `related` link is returned but not stored.
FetchMissUnstored(args, name, relationship, related, url) ==
  IF Get(relationship, "data").kind \in {"obj", "list"}
  THEN IF ~Truthy(related) \/ ~isResource(heap, related)
       THEN Return("fetch", args, heap, "threw", Str("TypeError"))
       ELSE Await("fetch", args, heap, related.oid,
                  GetRequest(heap, related.oid))
  ELSE IF ~Truthy(url)
       THEN Return("fetch", args, heap, "threw",
                   Str("Cannot fetch " \o name \o ", no 'related' link"))
       ELSE Return("fetch", args, Append(heap, NewCollection(url, Null)),
                   "ok", Ref(Len(heap) + 1))

\* resources.js 323-335: fetch, past the cached value
FetchMiss(args, name, relationship, related, url) ==
  IF Get(relationship, "data").kind \in {"obj", "list"}
  THEN IF ~Truthy(related) \/ ~isResource(heap, related)
       THEN Return("fetch", args, heap, "threw", Str("TypeError"))
       ELSE Await("fetch", args, heap, related.oid,
                  GetRequest(heap, related.oid))
  ELSE IF ~Truthy(url)
       THEN Return("fetch", args, heap, "threw",
                   Str("Cannot fetch " \o name \o ", no 'related' link"))
       ELSE Return("fetch", args,
                   [Append(heap, NewCollection(url, Null))
                      EXCEPT ![Self].related =
                               Put(@, name, Ref(Len(heap) + 1))],
                   "ok", Ref(Len(heap) + 1))

\* A fault the properties are tested against: fetch without its cache, the
\* related value is resolved again on every call.
FetchKnownUncached(args, name, force, relationship, related) ==
  IF isNull(relationship)
  THEN Return("fetch", args, heap, "ok", Null)
  ELSE FetchMiss(args, name, relationship, related,
                 Get(Get(relationship, "links"), "related"))

\* resource.fetch(relationshipName, force), up to `await related.reload()`
FetchKnown(args, name, force, relationship, related) ==
  IF isNull(relationship)
  THEN Return("fetch", args, heap, "ok", Null)
  ELSE IF (isSingularFetched(heap, related) \/
           isPluralFetched(heap, related)) /\ ~force
       THEN Return("fetch", args, heap, "ok", related)
       ELSE FetchMiss(args, name, relationship, related,
                      Get(Get(relationship, "links"), "related"))

Fetching(name, force) ==
  IF name \notin DOMAIN heap[Self].relationships
  THEN Return("fetch", [NoArgs EXCEPT !.key = name, !.force = force],
              heap, "threw",
              Str("Resource does not have relationship '" \o name \o "'"))
  ELSE FetchKnown([NoArgs EXCEPT !.key = name, !.force = force], name,
                  force, heap[Self].relationships[name],
                  relatedOf(heap, Self, name))

Fetch(name, force) == Idle /\ Fetching(name, force)

\* resource.reload(), up to its await
Reload ==
  /\ Idle
  /\ Await("reload", NoArgs, heap, Self, GetRequest(heap, Self))

\* The rest of reload, of the resource or of the related resource that
\* fetch reloads
ReloadDone(r, resp) ==
  Resume(r.h, Outcome(r.err),
         IF pend[1].op = "fetch" /\ ~r.err THEN Ref(pend[1].target)
         ELSE Undefined,
         resp)

ReloadRespond(response) ==
  /\ pend # <<>>
  /\ pend[1].op \in {"reload", "fetch"}
  /\ response \in GetResponses(heap, pend[1].target)
  /\ IF response.kind = "fail"
     THEN Resume(heap, "failed", Undefined, "fail")
     ELSE ReloadDone(reloaded(heap, pend[1].target, response), response.kind)

\* resources.js 379-428: the routing and the request of save
SaveSend(op, args, h, g, request) ==
  IF g.err THEN Return(op, args, h, "threw", Str(g.error))
  ELSE Await(op, args, h, Self, request)

SaveRoute(args, h, g) == SaveSend("save", args, h, g, saveRequest(h, Self, g.v))

SaveSet(args, fields, s) ==
  IF s.err THEN Return("save", args, s.h, "threw", Undefined)
  ELSE SaveRoute(args, s.h,
                 generateDataForSaving(s.h, Self,
                                       defaultFields(s.h, Self, fields)))

\* resource.save(fields, props), up to the await of its request
Save(fields, props) ==
  /\ Idle
  /\ SaveSet([NoArgs EXCEPT !.fields = fields, !.props = props],
             fields \o KeyOrder(DOMAIN props),
             setLoop(heap, Self, props, KeyOrder(DOMAIN props), 1))

\* api.Child.create(data): _saveNew on the instance just built
CreateSend(g) ==
  SaveSend("create", NoArgs, heap, g, saveNewRequest(heap, Self, g.v))

Create ==
  /\ Idle
  /\ nops = 0
  /\ CreateSend(generateDataForSaving(heap, Self,
                                      defaultFields(heap, Self, <<>>)))

\* The rest of _saveExisting and _saveNew
SaveDone(r, body) ==
  /\ heap' = r.h
  /\ pend' = <<>>
  /\ last' = [last EXCEPT !.out = Outcome(r.err), !.resp = "ok",
                          !.body = body, !.step = "resume"]
  /\ UNCHANGED <<log, pre, prev, nops>>

SaveRespond(response) ==
  /\ pend # <<>>
  /\ pend[1].op \in {"save", "create"}
  /\ response \in SaveResponses
  /\ IF response.kind = "fail"
     THEN Resume(heap, "failed", Undefined, "fail")
     ELSE SaveDone(postSave(heap, Self, response), response.body)

\* resource.change(field, value), up to the await of its request
ChangeSend(args, field, r) ==
  IF field \notin DOMAIN heap[Self].relationships \/ r.err
  THEN Return("change", args, r.h, "threw", Undefined)
  ELSE Await("change", [args EXCEPT !.value = r.v], r.h, Self,
             [method |-> "patch",
              url |-> relationshipUrl(r.h, Self, field),
              params |-> Null,
              data |-> Obj([data |->
                IF Truthy(r.v) THEN asResourceIdentifier(r.h, r.v.oid)
                ELSE r.v])])

Change(field, value) ==
  /\ Idle
  /\ ChangeSend([NoArgs EXCEPT !.key = field, !.value = value,
                              !.props = [given |-> value]], field,
                IF Truthy(value) THEN asResource(heap, value)
                ELSE Result(heap, value, FALSE))

\* The rest of change
ChangeRespond(response) ==
  /\ pend # <<>>
  /\ pend[1].op = "change"
  /\ response \in EditResponses
  /\ IF response.kind = "fail"
     THEN Resume(heap, "failed", Undefined, "fail")
     ELSE Resume(changed(heap, Self, pend[1].args.key, pend[1].args.value),
                 "ok", Undefined, "ok")

\* resource.delete(), up to the await of its request
Delete ==
  /\ Idle
  /\ Await("delete", NoArgs, heap, Self,
           [method |-> "delete", url |-> getItemUrl(heap, Self),
            params |-> Undefined, data |-> Undefined])

\* A fault the properties are tested against: delete clears the attributes
\* with the id.
DeleteRespondWipes(response) ==
  /\ pend # <<>>
  /\ pend[1].op = "delete"
  /\ response \in EditResponses
  /\ IF response.kind = "fail"
     THEN Resume(heap, "failed", Undefined, "fail")
     ELSE Resume([heap EXCEPT ![Self].id = Null, ![Self].attributes = NoKeys],
                 "ok", Undefined, "ok")

\* The rest of delete
DeleteRespond(response) ==
  /\ pend # <<>>
  /\ pend[1].op = "delete"
  /\ response \in EditResponses
  /\ IF response.kind = "fail"
     THEN Resume(heap, "failed", Undefined, "fail")
     ELSE Resume([heap EXCEPT ![Self].id = Null], "ok", Undefined, "ok")

\* The arguments the operations are called with
SetArgs == {<<"name", Str("y")>>, <<"parent", ParentFull>>, <<"parent", Null>>}
FetchArgs == {<<"parent", FALSE>>, <<"parent", TRUE>>, <<"children", FALSE>>}
SaveArgs == {<<<<>>, NoKeys>>, <<<<"name">>, NoKeys>>,
             <<<<>>, [parent |-> ParentFull]>>,
             <<<<"parent">>, NoKeys>>, <<<<"name", "bogus">>, NoKeys>>,
             <<<<"parent", "bogus">>, NoKeys>>}
ChangeArgs == {<<"parent", Null>>, <<"parent", Ident("parents", "3")>>}

Init ==
  /\ heap \in {r.h : r \in {c \in {Constructed(data) : data \in CtorInputs} :
                               ~c.err}}
  /\ pend = <<>>
  /\ log = <<>>
  /\ last = [NoCall EXCEPT !.op = "new", !.target = Self]
  /\ pre = heap
  /\ prev = NoCall
  /\ nops = 0

Next ==
  \/ \E a \in SetArgs : Set(a[1], a[2])
  \/ \E a \in FetchArgs : Fetch(a[1], a[2])
  \/ Reload
  \/ \E r \in {OkResponse(b) : b \in ChildDocs \cup ParentDocs(Str("2"))}
              \cup {RedirectResponse, FailResponse} : ReloadRespond(r)
  \/ \E a \in SaveArgs : Save(a[1], a[2])
  \/ Create
  \/ \E r \in SaveResponses : SaveRespond(r)
  \/ \E a \in ChangeArgs : Change(a[1], a[2])
  \/ \E r \in EditResponses : ChangeRespond(r)
  \/ Delete
  \/ \E r \in EditResponses : DeleteRespond(r)

Spec == Init /\ [][Next]_vars

----------------------------------------------------------------------------
(* Collection (collections.js)                                             *)

\* this._params || {}
paramsOf(h, c) == IF Truthy(h[c].params) THEN h[c].params.f ELSE NoKeys

\* A fault the properties are tested against: the params are merged into
\* the receiver's own object, Object.assign(this._params, params).
extraInPlace(h, c, params) ==
  Append([h EXCEPT ![c].params = Obj(Spread(paramsOf(h, c), params))],
         NewCollection(h[c].url, Obj(Spread(paramsOf(h, c), params))))

\* Collection.extra(params): the heap with the new Collection appended
extra(h, c, params) ==
  Append(h, NewCollection(h[c].url, Obj(Spread(paramsOf(h, c), params))))

\* A fault the properties are tested against: the key is not split.
splitNever(s, sep) == <<s>>

\* String.prototype.split(separator): the parts of s between the
\* occurrences of sep, each occurrence taken at the leftmost place
RECURSIVE splitFrom(_, _, _, _, _)
splitFrom(s, sep, i, start, acc) ==
  IF i + Len(sep) - 1 > Len(s) THEN Append(acc, SubSeq(s, start, Len(s)))
  ELSE IF SubSeq(s, i, i + Len(sep) - 1) = sep
       THEN splitFrom(s, sep, i + Len(sep), i + Len(sep),
                      Append(acc, SubSeq(s, start, i - 1)))
       ELSE splitFrom(s, sep, i + 1, start, acc)

split(s, sep) == splitFrom(s, sep, 1, 1, <<>>)

\* collections.js 79-83: `filter[${parts[0]}]`, then one `[${part}]` for
\* every further part, joined
RECURSIVE bracketed(_, _)
bracketed(parts, i) ==
  IF i > Len(parts) THEN ""
  ELSE "[" \o parts[i] \o "]" \o bracketed(parts, i + 1)

filterKey(parts) == "filter" \o bracketed(parts, 1)

\* collections.js 84-86
filterValue(h, value) == IF isResource(h, value) THEN h[value.oid].id ELSE value

\* collections.js 75-88: the params filter builds
filterParams(h, filters) ==
  [k \in {filterKey(split(key, "__")) : key \in DOMAIN filters} |->
     filterValue(h, filters[CHOOSE key \in DOMAIN filters :
                               filterKey(split(key, "__")) = k])]

\* Collection.filter(filters)
filter(h, c, filters) == extra(h, c, filterParams(h, filters))

\* A fault the properties are tested against: page takes every argument
\* for a page number.
pageParamsWhole(arg) == [page |-> arg]

\* collections.js 93-102: the params page builds
pageParams(arg) ==
  IF isObject(arg)
  THEN [k \in {"page[" \o key \o "]" : key \in DOMAIN arg.f} |->
          arg.f[CHOOSE key \in DOMAIN arg.f : "page[" \o key \o "]" = k]]
  ELSE [page |-> arg]

\* Collection.page(arg)
page(h, c, arg) == extra(h, c, pageParams(arg))

\* args.join(',')
RECURSIVE join(_, _)
join(args, i) ==
  IF i > Len(args) THEN ""
  ELSE IF i = Len(args) THEN args[i]
       ELSE args[i] \o "," \o join(args, i + 1)

\* Collection.include(...args), sort(...args) and fields(...args)
include(h, c, args) == extra(h, c, [include |-> Str(join(args, 1))])
sort(h, c, args) == extra(h, c, [sort |-> Str(join(args, 1))])
fields(h, c, args) == extra(h, c, [fields |-> Str(join(args, 1))])

\* collections.js 26-32: the side-loaded documents, by `${type}__${id}`
includedDocs(h, body) ==
  IF "included" \in DOMAIN body.f
  THEN [k \in {includedKey(h, body.f["included"].items[i]) :
                 i \in 1..Len(body.f["included"].items)} |->
          body.f["included"].items[
            CHOOSE i \in 1..Len(body.f["included"].items) :
              /\ includedKey(h, body.f["included"].items[i]) = k
              /\ \A j \in (i + 1)..Len(body.f["included"].items) :
                    includedKey(h, body.f["included"].items[j]) # k]]
  ELSE [k \in {} |-> Null]

\* collections.js 36-46: the related resources of one row
RECURSIVE rowRelatedLoop(_, _, _, _, _, _)
rowRelatedStep(rels, keys, i, docs, related, r) ==
  IF r.err THEN [h |-> r.h, related |-> related, err |-> TRUE]
  ELSE rowRelatedLoop(r.h, rels, keys, i + 1, docs, Put(related, keys[i], r.v))

rowRelatedLoop(h, rels, keys, i, docs, related) ==
  IF i > Len(keys) THEN [h |-> h, related |-> related, err |-> FALSE]
  ELSE IF isNull(rels[keys[i]]) \/ ~hasData(rels[keys[i]])
       THEN rowRelatedLoop(h, rels, keys, i + 1, docs, related)
       ELSE IF rels[keys[i]].f["data"].kind \in {"null", "undefined"}
            THEN [h |-> h, related |-> related, err |-> TRUE]
            ELSE IF includedKey(h, rels[keys[i]].f["data"]) \in DOMAIN docs
                 THEN rowRelatedStep(
                        rels, keys, i, docs, related,
                        new(h, docs[includedKey(h, rels[keys[i]].f["data"])]))
                 ELSE rowRelatedLoop(h, rels, keys, i + 1, docs, related)

\* collections.js 34-51: the rows
RECURSIVE rowsLoop(_, _, _, _, _)
rowPush(items, i, docs, rows, r) ==
  IF r.err THEN [h |-> r.h, rows |-> rows, err |-> TRUE]
  ELSE rowsLoop(r.h, items, i + 1, docs, Append(rows, r.v))

rowNew(items, i, docs, rows, rels, rr) ==
  IF rr.err THEN [h |-> rr.h, rows |-> rows, err |-> TRUE]
  ELSE rowPush(items, i, docs, rows,
               new(rr.h,
                   Obj(Spread([relationships |-> Obj(Spread(rels, rr.related))],
                              Del(items[i].f, "relationships")))))

rowRelated(h, items, i, docs, rows, rels) ==
  rowNew(items, i, docs, rows, rels,
         rowRelatedLoop(h, rels, KeyOrder(DOMAIN rels), 1, docs, NoKeys))

rowsLoop(h, items, i, docs, rows) ==
  IF i > Len(items) THEN [h |-> h, rows |-> rows, err |-> FALSE]
  ELSE rowRelated(h, items, i, docs, rows,
                  IF Truthy(Get(items[i], "relationships"))
                  THEN Get(items[i], "relationships").f ELSE NoKeys)

\* (response.data.links || {}).next || null, and the same of previous
pageLink(body, name) ==
  IF Truthy(Get(Get(body, "links"), name)) THEN Get(Get(body, "links"), name)
  ELSE Null

\* collections.js 34-54: what fetch does with the rows of its response
fetchedRows(c, body, r) ==
  [h |-> IF r.err THEN [r.h EXCEPT ![c].data = List(r.rows)]
         ELSE [r.h EXCEPT ![c].data = List(r.rows),
                          ![c].next = pageLink(body, "next"),
                          ![c].previous = pageLink(body, "previous")],
   err |-> r.err]

\* A fault the properties are tested against: the response is dropped and
\* this.data stays null.
fetchedNothing(h, c, body) == [h |-> h, err |-> FALSE]

\* collections.js 26-54: what fetch does with its response
fetched(h, c, body) ==
  fetchedRows(c, body,
              rowsLoop(h, body.f["data"].items, 1, includedDocs(h, body), <<>>))

\* The documents the server answers the GET of a list with
ListDocs ==
  {Obj([data |-> List(<<>>)]),
   Obj([data |-> List(<<Obj([type |-> Str("children"), id |-> Str("1"),
                             attributes |-> Obj([name |-> Str("srv")])])>>),
        links |-> Obj([next |-> Str("/children?page=2")])]),
   Obj([data |-> List(<<Obj([type |-> Str("children"), id |-> Str("1"),
                             relationships |->
                               Obj([parent |-> ParentEnvelope])])>>),
        included |-> List(<<IncludedParent>>)])}

ListResponses == {OkResponse(b) : b \in ListDocs} \cup {FailResponse}

\* api.Child.list(): the Collection the calls start from
ListHeap == Append(ExternalHeap, NewCollection(Str("/children"), Null))

Collections(h) == {c \in 1..Len(h) : h[c].cls = "Collection"}

\* collections.js 20-24: the request of fetch.  With it the log keeps which
\* Collection sent it, whether another fetch of that Collection was awaiting
\* its response then, and what the transport answered.
ListRequest(c) ==
  [method |-> "get", url |-> heap[c].url, params |-> heap[c].params,
   data |-> Undefined, by |-> c,
   overlap |-> \E i \in 1..Len(pend) : pend[i].target = c,
   answer |-> "none"]

\* A call on a Collection took its step.
CollectionCalled(op, args, c, out, ret) ==
  /\ last' = Called(op, args, c, out, ret)
  /\ pre' = heap
  /\ prev' = last
  /\ nops' = nops + 1

\* A fault the properties are tested against: fetch without its guard on
\* this.data.
CollectionFetchUnguarded(c) ==
  /\ nops < MaxCalls
  /\ c \in Collections(heap)
  /\ CollectionCalled("fetch", NoArgs, c, "pending", Undefined)
  /\ log' = Append(log, ListRequest(c))
  /\ pend' = Append(pend, [op |-> "fetch", args |-> NoArgs,
                           target |-> c, request |-> Len(log) + 1])
  /\ UNCHANGED heap

\* collection.fetch(), up to the await of its request
CollectionFetch(c) ==
  /\ nops < MaxCalls
  /\ c \in Collections(heap)
  /\ IF ~isNull(heap[c].data)
     THEN /\ CollectionCalled("fetch", NoArgs, c, "ok", Undefined)
          /\ UNCHANGED <<heap, pend, log>>
     ELSE /\ CollectionCalled("fetch", NoArgs, c, "pending", Undefined)
          /\ log' = Append(log, ListRequest(c))
          /\ pend' = Append(pend, [op |-> "fetch", args |-> NoArgs,
                                   target |-> c, request |-> Len(log) + 1])
          /\ UNCHANGED heap

\* An awaited fetch ended.
CollectionResume(i, h, out, resp) ==
  /\ heap' = h
  /\ pend' = SubSeq(pend, 1, i - 1) \o SubSeq(pend, i + 1, Len(pend))
  /\ log' = [log EXCEPT ![pend[i].request].answer = resp]
  /\ last' = [Called("fetch", NoArgs, pend[i].target, out, Undefined)
                EXCEPT !.resp = resp, !.step = "resume"]
  /\ pre' = heap
  /\ prev' = last
  /\ UNCHANGED nops

CollectionFetchDone(i, r) == CollectionResume(i, r.h, Outcome(r.err), "ok")

\* A fault the properties are tested against: a failed request leaves the
\* Collection with an empty list of rows.
CollectionFetchRespondEmptied(i, response) ==
  /\ i \in 1..Len(pend)
  /\ pend[i].op = "fetch"
  /\ IF response.kind = "fail"
     THEN CollectionResume(i, [heap EXCEPT ![pend[i].target].data = List(<<>>)],
                           "failed", "fail")
     ELSE CollectionFetchDone(i, fetched(heap, pend[i].target, response.body))

\* The rest of fetch, of any of the fetches that await their response
CollectionFetchRespond(i, response) ==
  /\ i \in 1..Len(pend)
  /\ pend[i].op = "fetch"
  /\ IF response.kind = "fail"
     THEN CollectionResume(i, heap, "failed", "fail")
     ELSE CollectionFetchDone(i, fetched(heap, pend[i].target, response.body))

\* A builder returned its new Collection.
Built(op, args, c, h) ==
  /\ heap' = h
  /\ CollectionCalled(op, args, c, "ok", Ref(Len(h)))
  /\ UNCHANGED <<pend, log>>

Builds(c) == nops < MaxCalls /\ c \in Collections(heap)

\* collection.extra(params)
Extra(c, params) ==
  /\ Builds(c)
  /\ Built("extra", [NoArgs EXCEPT !.props = params], c, extra(heap, c, params))

\* collection.filter(filters)
Filter(c, filters) ==
  /\ Builds(c)
  /\ Built("filter", [NoArgs EXCEPT !.props = filters], c,
           filter(heap, c, filters))

\* collection.page(arg)
Page(c, arg) ==
  /\ Builds(c)
  /\ Built("page", [NoArgs EXCEPT !.value = arg], c, page(heap, c, arg))

\* collection.include(...args)
Include(c, args) ==
  /\ Builds(c)
  /\ Built("include", [NoArgs EXCEPT !.value = List(args)], c,
           include(heap, c, args))

\* collection.sort(...args)
Sort(c, args) ==
  /\ Builds(c)
  /\ Built("sort", [NoArgs EXCEPT !.value = List(args)], c,
           sort(heap, c, args))

\* collection.fields(...args)
Fields(c, args) ==
  /\ Builds(c)
  /\ Built("fields", [NoArgs EXCEPT !.value = List(args)], c,
           fields(heap, c, args))

\* The arguments the builders are called with
\* Resource.list()
list(h, type) == Append(h, NewCollection(Str("/" \o type), Null))

\* A type-level list method returned its Collection.
TypeBuilt(op, args, h) ==
  /\ nops < MaxQueries
  /\ heap' = h
  /\ CollectionCalled(op, args, 0, "ok", Ref(Len(h)))
  /\ UNCHANGED <<pend, log>>

\* api.Child.filter(filters)
TypeFilter(filters) ==
  TypeBuilt("Resource.filter", [NoArgs EXCEPT !.props = filters],
            filter(list(heap, "children"), Len(heap) + 1, filters))

\* api.Child.page(arg)
TypePage(arg) ==
  TypeBuilt("Resource.page", [NoArgs EXCEPT !.value = arg],
            page(list(heap, "children"), Len(heap) + 1, arg))

\* api.Child.include(...args)
TypeInclude(args) ==
  TypeBuilt("Resource.include", [NoArgs EXCEPT !.value = List(args)],
            include(list(heap, "children"), Len(heap) + 1, args))

\* api.Child.sort(...args)
TypeSort(args) ==
  TypeBuilt("Resource.sort", [NoArgs EXCEPT !.value = List(args)],
            sort(list(heap, "children"), Len(heap) + 1, args))

\* api.Child.fields(...args)
TypeFields(args) ==
  TypeBuilt("Resource.fields", [NoArgs EXCEPT !.value = List(args)],
            fields(list(heap, "children"), Len(heap) + 1, args))

\* collections.js 119-120: the request of qs.fetch(), qs the Collection that
\* filter has just built
FilteredRequest(h) ==
  [method |-> "get", url |-> h[Len(h)].url, params |-> h[Len(h)].params,
   data |-> Undefined, by |-> Len(h), overlap |-> FALSE, answer |-> "none"]

\* collection.get(filters), up to the await of qs.fetch()
CollectionGet(c, filters) ==
  /\ nops < MaxQueries
  /\ c \in Collections(heap)
  /\ heap' = filter(heap, c, filters)
  /\ CollectionCalled("get", [NoArgs EXCEPT !.props = filters,
                                            !.value = Ref(Len(heap) + 1)],
                      c, "pending", Undefined)
  /\ log' = Append(log, FilteredRequest(filter(heap, c, filters)))
  /\ pend' = Append(pend, [op |-> "get",
                           args |-> [NoArgs EXCEPT !.props = filters,
                                                   !.value = Ref(Len(heap) + 1)],
                           target |-> Len(heap) + 1, receiver |-> c,
                           request |-> Len(log) + 1])

\* An awaited get ended.
CollectionGetResume(i, h, out, ret, resp, body) ==
  /\ heap' = h
  /\ pend' = SubSeq(pend, 1, i - 1) \o SubSeq(pend, i + 1, Len(pend))
  /\ log' = [log EXCEPT ![pend[i].request].answer = resp]
  /\ last' = [Called("get", pend[i].args, pend[i].receiver, out, ret)
                EXCEPT !.resp = resp, !.step = "resume", !.body = body]
  /\ pre' = heap
  /\ prev' = last
  /\ UNCHANGED nops

\* A fault the properties are tested against: get returns the first row
\* whatever the number of rows.
CollectionGetFirst(i, r, body) ==
  CollectionGetResume(i, r.h, "ok",
                      IF Len(r.h[pend[i].target].data.items) = 0 THEN Undefined
                      ELSE r.h[pend[i].target].data.items[1],
                      "ok", body)

\* collections.js 121-129: the row, or the error
CollectionGetDone(i, r, body) ==
  IF r.err THEN CollectionGetResume(i, r.h, "threw", Undefined, "ok", body)
  ELSE IF Len(r.h[pend[i].target].data.items) = 0
       THEN CollectionGetResume(i, r.h, "threw", Str("Does not exist"),
                                "ok", body)
       ELSE IF Len(r.h[pend[i].target].data.items) > 1
            THEN CollectionGetResume(
                   i, r.h, "threw",
                   Str("Multiple objects returned (" \o
                       ToString(Len(r.h[pend[i].target].data.items)) \o ")"),
                   "ok", body)
            ELSE CollectionGetResume(i, r.h, "ok",
                                     r.h[pend[i].target].data.items[1],
                                     "ok", body)

\* The rest of get, of any of the gets that await their response
CollectionGetRespond(i, response) ==
  /\ i \in 1..Len(pend)
  /\ pend[i].op = "get"
  /\ IF response.kind = "fail"
     THEN CollectionGetResume(i, heap, "failed", Undefined, "fail", Undefined)
     ELSE CollectionGetDone(i, fetched(heap, pend[i].target, response.body),
                            response.body)

\* The documents the server answers a filtered GET with: those of a list,
\* and lists of two and of three rows
GetDocs ==
  ListDocs \cup
  {Obj([data |-> List([i \in 1..n |->
                         Obj([type |-> Str("children"),
                              id |-> Str(ToString(i))])])]) : n \in {2, 3}}

GetArgs == {NoKeys, [name |-> Str("x")]}

ExtraArgs == {[sort |-> Str("id")]}
FilterArgs ==
  {[name |-> Str("x")],
   ("parent" :> ParentStub) @@ ("parent__name" :> Str("Zeus"))}
PageArgs == {Str("2"), Obj([number |-> Str("2")])}
IncludeArgs == {<<"parent">>, <<"parent", "children">>}
SortArgs == {<<"name">>, <<"-name", "id">>}
FieldsArgs == {<<"name">>}

InitCollection ==
  /\ heap = ListHeap
  /\ pend = <<>>
  /\ log = <<>>
  /\ last = [NoCall EXCEPT !.op = "list", !.target = Len(ListHeap)]
  /\ pre = heap
  /\ prev = NoCall
  /\ nops = 0

NextCollection ==
  \/ \E c \in Collections(heap) : CollectionFetch(c)
  \/ \E i \in 1..Len(pend), r \in ListResponses : CollectionFetchRespond(i, r)
  \/ \E c \in Collections(heap), params \in ExtraArgs : Extra(c, params)
  \/ \E c \in Collections(heap), filters \in FilterArgs : Filter(c, filters)
  \/ \E c \in Collections(heap), arg \in PageArgs : Page(c, arg)
  \/ \E c \in Collections(heap), args \in IncludeArgs : Include(c, args)
  \/ \E c \in Collections(heap), args \in SortArgs : Sort(c, args)
  \/ \E c \in Collections(heap), args \in FieldsArgs : Fields(c, args)

SpecCollection == InitCollection /\ [][NextCollection]_vars

----------------------------------------------------------------------------
(* The list methods of a Collection and of a Resource type, and get *)

QueryFilter(c, filters) == nops < MaxQueries /\ Filter(c, filters)
QueryPage(c, arg) == nops < MaxQueries /\ Page(c, arg)
QueryInclude(c, args) == nops < MaxQueries /\ Include(c, args)
QuerySort(c, args) == nops < MaxQueries /\ Sort(c, args)
QueryFields(c, args) == nops < MaxQueries /\ Fields(c, args)

QueryFilters ==
  {[a |-> Str("b"), c__d |-> Str("e")],
   ("parent" :> ParentStub) @@ ("parent__name" :> Str("Zeus")),
   ("a__b__c" :> Str("w")) @@ ("a___b" :> ParentFull) @@ ("__a" :> Null)}

QueryPages ==
  {Str("2"), Obj([a |-> Str("b"), c |-> Str("d")]), Obj(NoKeys), Null}

QueryNames == {<<>>, <<"a">>, <<"a", "b">>}

NextQuery ==
  \/ \E c \in Collections(heap), filters \in QueryFilters : QueryFilter(c, filters)
  \/ \E c \in Collections(heap), arg \in QueryPages : QueryPage(c, arg)
  \/ \E c \in Collections(heap), args \in QueryNames : QueryInclude(c, args)
  \/ \E c \in Collections(heap), args \in SortArgs : QuerySort(c, args)
  \/ \E c \in Collections(heap), args \in FieldsArgs : QueryFields(c, args)
  \/ \E filters \in QueryFilters : TypeFilter(filters)
  \/ \E arg \in QueryPages : TypePage(arg)
  \/ \E args \in QueryNames : TypeInclude(args)
  \/ \E args \in SortArgs : TypeSort(args)
  \/ \E args \in FieldsArgs : TypeFields(args)
  \/ \E c \in Collections(heap), filters \in GetArgs : CollectionGet(c, filters)
  \/ \E i \in 1..Len(pend), d \in GetDocs :
        CollectionGetRespond(i, OkResponse(d))
  \/ \E i \in 1..Len(pend) : CollectionGetRespond(i, FailResponse)

SpecQuery == InitCollection /\ [][NextQuery]_vars

----------------------------------------------------------------------------
(* The constructor, called with the flattened and with the nested form of  *)
(* the same fields                                                         *)

\* The names and values given as an attribute
CtorNames == {"name", "meta"}
CtorValues ==
  {Str("x"), Null, Obj([a |-> Str("b")]), List(<<>>), List(<<Str("a")>>),
   Ident("parents", "9"), Obj([links |-> ParentLinks]), Obj([data |-> Null]),
   List(<<Ident("children", "7")>>)}

\* The values given as the relationship `parent`
CtorRelated == {ParentStub, ParentFull, Ident("parents", "2"), ParentEnvelope}

\* { name: v, parent: value }
Flattened(name, v, value) == (name :> v) @@ [parent |-> value]

\* { attributes: { name: v }, relationships: { parent: value } }
Nested(name, v, value) ==
  [attributes |-> Obj(name :> v), relationships |-> Obj([parent |-> value])]

CtorArgs(form, name, v, value) ==
  [form |-> form, name |-> name, value |-> v, related |-> value]

\* new api.Child(data) returned, or threw
Constructs(args, o, r) ==
  /\ heap' = r.h
  /\ last' = Called("new", args, o, Outcome(r.err), Ref(o))
  /\ pre' = heap
  /\ prev' = last
  /\ nops' = nops + 1
  /\ UNCHANGED <<pend, log>>

\* new api.Child({ name: v, parent: value })
NewFlattened(name, v, value) ==
  /\ nops = 0
  /\ Constructs(CtorArgs("flattened", name, v, value), Len(heap) + 1,
            overwrite(Append(heap, BlankResource(Str("children"))),
                      Len(heap) + 1, Flattened(name, v, value)))

\* new api.Child({ attributes: { name: v }, relationships: { parent: value } })
\* with the fields the flattened form was given
NewNested ==
  /\ nops = 1
  /\ last.args.form = "flattened"
  /\ Constructs(CtorArgs("nested", last.args.name, last.args.value,
                     last.args.related),
            Len(heap) + 1,
            overwrite(Append(heap, BlankResource(Str("children"))),
                      Len(heap) + 1,
                      Nested(last.args.name, last.args.value,
                             last.args.related)))

\* The side-loaded resources of the scenario: the parent 2, the child 7 with
\* its own relationship, and a child that has the id of the parent
IncludedChild ==
  Obj([type |-> Str("children"), id |-> Str("7"),
       attributes |-> Obj([name |-> Str("Hercules")]),
       relationships |-> Obj([parent |-> Obj([data |-> Ident("parents", "1")])])])

IncludedNamesake ==
  Obj([type |-> Str("children"), id |-> Str("2"),
       attributes |-> Obj([name |-> Str("Iolaus")])])

IncludedEntries == {IncludedParent, IncludedChild, IncludedNamesake}

IncludedLists ==
  {<<>>} \cup {<<a>> : a \in IncludedEntries}
         \cup {<<a, b>> : a \in IncludedEntries, b \in IncludedEntries}

ChildrenPair ==
  Obj([data |-> List(<<Ident("children", "7"), Ident("children", "8")>>),
       links |-> ChildrenLinks])

\* The relationships of a document that comes with an `included` list
IncludedRelationships ==
  {p @@ c : p \in {NoKeys} \cup {[parent |-> v] : v \in
                    {Ident("parents", "2"), Ident("parents", "5"),
                     ParentEnvelope, ParentEnvelopeLinks}},
            c \in {NoKeys, [children |-> ChildrenPair]}}

\* { id, ...rels, included } and { id, relationships: rels, included }
IncludedDocs ==
  {[id |-> Str("1")] @@ rels @@ [included |-> List(inc)] :
     rels \in IncludedRelationships, inc \in IncludedLists}
  \cup {[id |-> Str("1"), relationships |-> Obj(rels), included |-> List(inc)] :
           rels \in IncludedRelationships, inc \in IncludedLists}

\* new api.Child({ id, ..., included })
NewIncluded(doc) ==
  /\ nops = 0
  /\ Constructs([form |-> "included", doc |-> doc], Len(heap) + 1,
                overwrite(Append(heap, BlankResource(Str("children"))),
                          Len(heap) + 1, doc))

\* value.data[row - 1] of a related Collection, the value itself for row 0
readRow(h, v, row) ==
  IF row = 0 THEN v
  ELSE IF isCollection(h, v) /\ isList(h[v.oid].data) /\
          row <= Len(h[v.oid].data.items)
       THEN h[v.oid].data.items[row] ELSE Undefined

\* value.get(attr)
readAttr(h, v, attr) ==
  IF isResource(h, v) THEN Result(h, get(h, v.oid, attr), FALSE)
  ELSE Result(h, Undefined, TRUE)

\* child.get(field).get(attr), child.get(field).data[row - 1].get(attr)
ReadRelated(field, row, attr) ==
  /\ nops = 1
  /\ last.args.form = "included"
  /\ last.out = "ok"
  /\ heap' = readAttr(heap, readRow(heap, get(heap, last.target, field), row),
                      attr).h
  /\ last' = Called("get",
                    [form |-> "read", doc |-> last.args.doc, field |-> field,
                     row |-> row, attr |-> attr],
                    last.target,
                    Outcome(readAttr(heap, readRow(heap, get(heap, last.target,
                                                         field), row),
                                     attr).err),
                    readAttr(heap, readRow(heap, get(heap, last.target, field),
                                           row), attr).v)
  /\ pre' = heap
  /\ prev' = last
  /\ nops' = nops + 1
  /\ UNCHANGED <<pend, log>>

ReadArgs == {<<"parent", 0>>, <<"children", 1>>, <<"children", 2>>}

InitCtor ==
  /\ heap = ExternalHeap
  /\ pend = <<>>
  /\ log = <<>>
  /\ last = NoCall
  /\ pre = heap
  /\ prev = NoCall
  /\ nops = 0

NextCtor ==
  \/ \E name \in CtorNames, v \in CtorValues, value \in CtorRelated :
        NewFlattened(name, v, value)
  \/ NewNested
  \/ \E doc \in IncludedDocs : NewIncluded(doc)
  \/ \E a \in ReadArgs, attr \in {"name", "parent"} :
        ReadRelated(a[1], a[2], attr)

SpecCtor == InitCtor /\ [][NextCtor]_vars

----------------------------------------------------------------------------
(* Collection.allPages() and Collection.all(): the traversal of the pages  *)
(* of a list, one consumer asking for one element at a time                *)

\* The numbers of rows a page may have
RowCounts == {0, 1, 2}

\* The url of page k
PageUrl(k) ==
  IF k = 1 THEN Str("/children")
  ELSE Str("/children?page=" \o ToString(k))

\* Row i of page k
PageRow(k, i) ==
  Obj([type |-> Str("children"), id |-> Str(ToString(k) \o "-" \o ToString(i))])

\* The bodies the server may answer the GET of page k with: with no links,
\* with next null, and (but for the last page) with the link to page k + 1
PageDocs(k) ==
  {Obj([data |-> List([i \in 1..n |-> PageRow(k, i)])] @@ l) :
     n \in RowCounts,
     l \in {NoKeys, [links |-> Obj([next |-> Null])]}
           \cup {[links |-> Obj([next |-> PageUrl(k + 1)])] : j \in
                   {j \in {k} : k < MaxPages}}}

\* What the transport may answer the GET of a url with
PageResponses(url) ==
  {OkResponse(b) : b \in UNION {PageDocs(k) : k \in
                                  {k \in 1..MaxPages : PageUrl(k) = url}}}
  \cup {FailResponse}

Generators(h) == {g \in 1..Len(h) : h[g].cls = "Generator"}

\* The generator object allPages() or all() returns, before the consumer
\* has asked for anything.  `page` is the page the loop is at, `row` the rows
\* of it yielded so far, `fetching` the page whose fetch is awaited.  `pages`,
\* `out`, `asks` and `warm` record what happened: the pages the loop has been
\* at, the values yielded, the calls of next(), and whether the receiver had
\* its data when the traversal began.
NewGenerator(kind, c, warm) ==
  [cls |-> "Generator", kind |-> kind, this |-> c, state |-> "start",
   page |-> 0, row |-> 0, fetching |-> 0, pages |-> <<>>, out |-> <<>>,
   asks |-> 0, warm |-> warm]

\* collections.js 20-24: the request of the fetch the generator awaits, with
\* the calls of next() and the values yielded by then
PageRequest(h, g, p) ==
  [method |-> "get", url |-> h[p].url, params |-> h[p].params,
   data |-> Undefined, by |-> p, asks |-> h[g].asks,
   yields |-> Len(h[g].out)]

\* `yield value`
yielded(h, g, value) ==
  [h |-> [h EXCEPT ![g].state = "suspended", ![g].out = Append(@, value)],
   sent |-> 0]

\* The generator awaits the fetch of page p.
awaiting(h, g, p) ==
  [h |-> [h EXCEPT ![g].state = "awaiting", ![g].fetching = p], sent |-> p]

\* collections.js 137: if (page.next)
hasNext(h, p) == Truthy(h[p].next)

\* A fault the properties are tested against: the loop stops at its first
\* page.
followingNever(h, g) == [h |-> [h EXCEPT ![g].state = "done"], sent |-> 0]

\* collections.js 137-142 and 58-59: the next page is built and fetched, or
\* the loop ends
following(h, g) ==
  IF hasNext(h, h[g].page)
  THEN awaiting(Append(h, NewCollection(h[h[g].page].next, Null)), g,
                Len(h) + 1)
  ELSE [h |-> [h EXCEPT ![g].state = "done"], sent |-> 0]

\* collections.js 148-150: the next row of the page, or the next page
rows(h, g) ==
  IF h[g].row < Len(h[h[g].page].data.items)
  THEN yielded([h EXCEPT ![g].row = @ + 1], g,
               h[h[g].page].data.items[h[g].row + 1])
  ELSE following(h, g)

\* collections.js 134-136, 138 and 147: page p has its data and is the page
\* of the loop
arrived(h, g, p) ==
  IF h[g].kind = "allPages"
  THEN yielded([h EXCEPT ![g].page = p, ![g].pages = Append(@, p)], g, Ref(p))
  ELSE rows([h EXCEPT ![g].page = p, ![g].row = 0,
                      ![g].pages = Append(@, p)], g)

\* A fault the properties are tested against: the receiver is fetched
\* whether it has its data or not.
startedCold(h, g) == awaiting(h, g, h[g].this)

\* collections.js 133 and 16-18: the fetch of the receiver
started(h, g) ==
  IF ~isNull(h[h[g].this].data)
  THEN arrived(h, g, h[g].this)
  ELSE awaiting(h, g, h[g].this)

\* generator.next(): the body runs to its next yield, await or end
resumed(h, g) ==
  IF h[g].state = "start" THEN started(h, g)
  ELSE IF h[g].kind = "all" THEN rows(h, g) ELSE following(h, g)

\* What next() has returned so far: { value, done }, or the error it threw
Settled(h, g) ==
  CASE h[g].state = "suspended" -> <<"ok", h[g].out[Len(h[g].out)]>>
    [] h[g].state = "done" -> <<"ok", Undefined>>
    [] h[g].state = "threw" -> <<"threw", Undefined>>
    [] OTHER -> <<"pending", Undefined>>

\* The generator ran until it yielded, ended or awaits a request.
Ran(g, x, nlog) ==
  /\ heap' = x.h
  /\ log' = IF x.sent = 0 THEN log
            ELSE Append(log, PageRequest(x.h, g, x.sent))
  /\ pend' = IF x.sent = 0 THEN <<>>
             ELSE <<[op |-> "next", args |-> NoArgs, target |-> g]>>
  /\ last' = [Called("next", NoArgs, g, Settled(x.h, g)[1], Settled(x.h, g)[2])
                EXCEPT !.nlog = nlog]
  /\ pre' = heap
  /\ UNCHANGED <<prev, nops>>

\* collection.allPages(), collection.all(): the generator is made, nothing
\* of its body runs
Traverse(kind, c) ==
  /\ Generators(heap) = {}
  /\ c \in Collections(heap)
  /\ heap' = Append(heap, NewGenerator(kind, c, ~isNull(heap[c].data)))
  /\ last' = Called(kind, NoArgs, c, "ok", Ref(Len(heap) + 1))
  /\ pre' = heap
  /\ prev' = last
  /\ UNCHANGED <<pend, log, nops>>

\* The consumer asks for the next element: generator.next()
Ask(g) ==
  /\ g \in Generators(heap)
  /\ heap[g].state \in {"start", "suspended"}
  /\ pend = <<>>
  /\ Ran(g, resumed([heap EXCEPT ![g].asks = @ + 1], g), Len(log))

\* The fetch the generator awaits failed: the error leaves next().
PageFailed(g) ==
  /\ heap' = [heap EXCEPT ![g].state = "threw"]
  /\ pend' = <<>>
  /\ last' = [last EXCEPT !.out = "threw", !.resp = "fail"]
  /\ pre' = heap
  /\ UNCHANGED <<log, prev, nops>>

\* The fetch the generator awaits has stored its rows.
PageFetched(g, r) ==
  IF r.err THEN PageFailed(g)
  ELSE Ran(g, arrived(r.h, g, heap[g].fetching), last.nlog)

\* The transport answers the request the generator awaits.
PageRespond(response) ==
  /\ pend # <<>>
  /\ pend[1].op = "next"
  /\ response \in PageResponses(heap[heap[pend[1].target].fetching].url)
  /\ IF response.kind = "fail" THEN PageFailed(pend[1].target)
     ELSE PageFetched(pend[1].target,
                      fetched(heap, heap[pend[1].target].fetching,
                              response.body))

AllPageResponses == UNION {PageResponses(PageUrl(k)) : k \in 1..MaxPages}

\* The list before its first fetch, or after it
InitPages ==
  /\ heap \in {ListHeap} \cup
              {fetched(ListHeap, Len(ListHeap), d).h : d \in PageDocs(1)}
  /\ pend = <<>>
  /\ log = <<>>
  /\ last = NoCall
  /\ pre = heap
  /\ prev = NoCall
  /\ nops = 0

Starts == \E c \in Collections(heap), kind \in {"allPages", "all"} : Traverse(kind, c)

Asks == \E g \in Generators(heap) : Ask(g)

Responds == \E response \in AllPageResponses : PageRespond(response)

NextPages == Starts \/ Asks \/ Responds

SpecPages == InitPages /\ [][NextPages]_vars

\* The consumer keeps asking and the transport answers every request.
SpecPagesLive == SpecPages /\ WF_vars(Asks) /\ WF_vars(Responds)

----------------------------------------------------------------------------
(* JsonApi: the connection instances, their setup and their registry *)

\* class Api extends JsonApi { static HOST }, and the classes registered
\* with it
HOST == Str("https://api.families.com")
Registered == {[name |-> "Child", TYPE |-> "children"],
               [name |-> "Parent", TYPE |-> "parents"]}

\* A function, by what it returns when called without arguments
Fn(result) == [kind |-> "fn", result |-> result]

\* apis.js 10-12: the connection before the constructor calls setup
BlankApi == [cls |-> "JsonApi", host |-> HOST, auth |-> Null,
             registry |-> NoKeys]

\* apis.js 25: () => { return { Authorization: `Bearer ${auth}` }; }
bearer(auth) == Fn(Obj([Authorization |-> Str("Bearer " \o KeyStr(auth))]))

\* apis.js 18-20
setupHost(h, a, host) == IF Truthy(host) THEN host ELSE h[a].host

\* apis.js 21-27
setupAuth(h, a, auth) ==
  IF Truthy(auth) THEN (IF auth.kind = "fn" THEN auth ELSE bearer(auth))
  ELSE h[a].auth

\* JsonApi.setup({ host, auth })
setup(h, a, props) ==
  [h EXCEPT ![a].host = setupHost(h, a, Default(props, "host", Undefined)),
            ![a].auth = setupAuth(h, a, Default(props, "auth", Undefined))]

\* A fault the properties are tested against: the constructor leaves its
\* props aside.
constructedBare(h, props) == Append(h, BlankApi)

\* new Api(props)
constructed(h, props) == setup(Append(h, BlankApi), Len(h) + 1, props)

\* A fault the properties are tested against: a connection without auth
\* sends its requests with no headers of its own.
calledOrEmpty(f) ==
  IF f.kind = "fn" THEN [v |-> f.result, err |-> FALSE]
  ELSE [v |-> Obj(NoKeys), err |-> FALSE]

\* this.auth()
called(f) ==
  IF f.kind = "fn" THEN [v |-> f.result, err |-> FALSE]
  ELSE [v |-> Undefined, err |-> TRUE]

\* apis.js 39-43: class extends parentCls { static API = jsonApiInstance }
BoundClass(parent, type, a) ==
  [cls |-> "Class", extends |-> parent, TYPE |-> Str(type), API |-> a]

\* apis.js 36-46: the getter register defines for parentCls.name and for
\* parentCls.TYPE
bound(h, a, parentCls) ==
  IF parentCls.TYPE \in DOMAIN h[a].registry
  THEN [h |-> h, v |-> h[a].registry[parentCls.TYPE]]
  ELSE [h |-> [Append(h, BoundClass(parentCls.name, parentCls.TYPE, a))
                 EXCEPT ![a].registry =
                          Put(@, parentCls.TYPE, Ref(Len(h) + 1))],
        v |-> Ref(Len(h) + 1)]

\* apis.js 93-100: the class `new` finds or registers for a type
resolved(h, a, type) ==
  IF type \in DOMAIN h[a].registry THEN h
  ELSE [Append(h, BoundClass("Resource", type, a))
          EXCEPT ![a].registry = Put(@, type, Ref(Len(h) + 1))]

\* apis.js 101: new this.registry[type](props)
instantiated(h, type, props) ==
  overwrite(Append(h, BlankResource(Str(type))), Len(h) + 1, props)

Apis(h) == {a \in 1..Len(h) : h[a].cls = "JsonApi"}

ApiCalled(op, args, a, out, ret, h) ==
  /\ nops < MaxApiOps
  /\ heap' = h
  /\ CollectionCalled(op, args, a, out, ret)
  /\ UNCHANGED <<pend, log>>

\* new Api(props)
Construct(props) ==
  ApiCalled("new JsonApi", [NoArgs EXCEPT !.props = props], Len(heap) + 1,
            "ok", Ref(Len(heap) + 1), constructed(heap, props))

\* api.setup(props)
Setup(a, props) ==
  ApiCalled("setup", [NoArgs EXCEPT !.props = props], a, "ok", Undefined,
            setup(heap, a, props))

\* api.Child, api.children, api.Parent, api.parents
Access(a, parentCls, name) ==
  ApiCalled("access", [NoArgs EXCEPT !.key = name, !.value = Str(parentCls.TYPE)],
            a, "ok", bound(heap, a, parentCls).v, bound(heap, a, parentCls).h)

\* api.new({ type, id: '1' })
ApiNew(a, type) ==
  ApiCalled("new", [NoArgs EXCEPT !.value = Str(type)], a,
            Outcome(instantiated(resolved(heap, a, type), type,
                                 [id |-> Str("1")]).err),
            Ref(Len(resolved(heap, a, type)) + 1),
            instantiated(resolved(heap, a, type), type, [id |-> Str("1")]).h)

AuthFn == Fn(Obj([Authorization |-> Str("Basic abc")]))

ApiProps ==
  {NoKeys,
   [host |-> Str("https://b.com")],
   [auth |-> Str("MYTOKEN")],
   [auth |-> AuthFn],
   [host |-> Str("https://b.com"), auth |-> AuthFn],
   [host |-> Str(""), auth |-> Null]}

\* api = new Api()
InitApi ==
  /\ heap = constructed(<<>>, NoKeys)
  /\ pend = <<>>
  /\ log = <<>>
  /\ last = NoCall
  /\ pre = heap
  /\ prev = NoCall
  /\ nops = 0

NextApi ==
  \/ \E props \in ApiProps : Construct(props)
  \/ \E a \in Apis(heap), props \in ApiProps : Setup(a, props)
  \/ \E a \in Apis(heap), parentCls \in Registered, name \in {"name", "TYPE"} :
        Access(a, parentCls, parentCls[name])
  \/ \E a \in Apis(heap), type \in {"children", "others"} : ApiNew(a, type)

SpecApi == InitApi /\ [][NextApi]_vars

----------------------------------------------------------------------------
(* Properties                                                              *)

Resources(h) == {o \in 1..Len(h) : h[o].cls = "Resource"}

\* The requests the operation called last has sent
Sent == Len(log) - last.nlog

\* The body of the request sent last: its `data` member
SentData == Get(log[Len(log)].data, "data")

\* The keys of a plain object, none for any other value
Keys(v) == IF isObject(v) THEN DOMAIN v.f ELSE {}

\* The fields of an object or of a value, by name
FieldsOf(h, v) ==
  CASE v.kind = "ref" /\ h[v.oid].cls = "Resource" ->
         [TYPE |-> h[v.oid].TYPE, id |-> h[v.oid].id,
          attributes |-> Obj(h[v.oid].attributes),
          relationships |-> Obj(h[v.oid].relationships),
          related |-> Obj(h[v.oid].related),
          links |-> Obj(h[v.oid].links), redirect |-> h[v.oid].redirect]
    [] v.kind = "ref" /\ h[v.oid].cls = "Collection" ->
         [url |-> h[v.oid].url, params |-> h[v.oid].params,
          data |-> h[v.oid].data, next |-> h[v.oid].next,
          previous |-> h[v.oid].previous]
    [] OTHER -> OwnProps(h, v)

\* Two values are the same up to the identity of the objects they lead to
RECURSIVE SameValue(_, _, _)
SameFields(h, f, g) ==
  /\ DOMAIN f = DOMAIN g
  /\ \A k \in DOMAIN f : SameValue(h, f[k], g[k])

SameValue(h, a, b) ==
  \/ a = b
  \/ /\ a.kind = b.kind
     /\ a.kind \in {"ref", "obj", "list"}
     /\ SameFields(h, FieldsOf(h, a), FieldsOf(h, b))

\* C1: in every reachable state, the keys of `relationships` are the keys of
\* `related`, for every Resource.
C1_KeysInLockstep ==
  \A o \in Resources(heap) :
     DOMAIN heap[o].relationships = DOMAIN heap[o].related

\* What does hold of the two maps: every key of `related` is a key of
\* `relationships`, and a relationship without a key in `related` is a
\* plural one that was given its links alone.
C1_RelatedWithinRelationships ==
  \A o \in Resources(heap) :
     /\ DOMAIN heap[o].related \subseteq DOMAIN heap[o].relationships
     /\ \A k \in (DOMAIN heap[o].relationships) \ (DOMAIN heap[o].related) :
           /\ isObject(heap[o].relationships[k])
           /\ DOMAIN heap[o].relationships[k].f = {"links"}

\* Both forms of the constructor have been called with the same fields.
C2_BothBuilt ==
  /\ last.op = "new" /\ last.args.form = "nested"
  /\ prev.op = "new" /\ prev.args.form = "flattened"

C2_SameResource ==
  /\ prev.out = last.out
  /\ last.out = "ok" => SameValue(heap, prev.ret, last.ret)

C3_SecondFetch ==
  /\ last.op = "fetch"
  /\ prev.op = "fetch"
  /\ prev.args.key = last.args.key
  /\ ~prev.args.force
  /\ last.nlog = prev.nlog + 1

\* C3 as stated: whatever the server answered the first call, a second call
\* without force sends nothing.
C3_OneRequestForEveryResponse ==
  (C3_SecondFetch /\ ~last.args.force /\ prev.out = "ok") => Sent = 0

\* C3, amended: the second call sends nothing and returns the cached value
\* when it is not forced and the first response gave the related resource an
\* attribute or a relationship; it sends a second request when it is forced,
\* and also when the first response carried neither (a 2xx with the identity
\* alone, a 3xx) or the first request failed.
C3_FetchTwice ==
  C3_SecondFetch =>
    IF ~last.args.force /\ prev.out = "ok" /\ isSingularFetched(pre, prev.ret)
    THEN Sent = 0 /\ last.out = "ok" /\ last.ret = prev.ret
    ELSE Sent = 1

C3_Witness ==
  /\ C3_SecondFetch
  /\ ~last.args.force
  /\ prev.resp = "ok"
  /\ isSingularFetched(pre, prev.ret)
  /\ Sent = 0
  /\ last.ret = prev.ret

\* C4: a fetch called on a Collection whose data is not null sends nothing
\* and leaves the Collection as it was, and no step takes a Collection's data
\* from non-null back to null.
C4_FetchedStaysFetched ==
  /\ (last.op = "fetch" /\ last.step = "call" /\
      ~isNull(pre[last.target].data))
     => (last.out = "ok" /\ Sent = 0 /\ heap = pre)
  /\ \A c \in Collections(pre) :
        ~isNull(pre[c].data) => ~isNull(heap[c].data)

C4_Witness ==
  /\ last.op = "fetch"
  /\ last.step = "call"
  /\ isList(pre[last.target].data)
  /\ Len(pre[last.target].data.items) = 1
  /\ heap[last.target].next = Str("/children?page=2")

\* The requests Collection c has sent
RequestsOf(c) == {i \in 1..Len(log) : log[i].by = c}

\* C5 as stated: over any interleaving of fetch calls, a Collection sends at
\* most one request.
C5_AtMostOneRequest ==
  \A c \in Collections(heap) : Cardinality(RequestsOf(c)) <= 1

\* C5, amended: a Collection sends at most one request as long as none of
\* its fetches was called while another awaited its response and none of its
\* requests failed.
C5_OneRequestWhenSequential ==
  \A c \in Collections(heap) :
     (\A i \in RequestsOf(c) : ~log[i].overlap /\ log[i].answer # "fail")
     => Cardinality(RequestsOf(c)) <= 1

C5_Witness ==
  /\ last.op = "fetch"
  /\ last.step = "call"
  /\ prev.op = "fetch"
  /\ prev.step = "resume"
  /\ prev.target = last.target
  /\ prev.out = "ok"
  /\ Cardinality(RequestsOf(last.target)) = 1
  /\ pend = <<>>

Builders == {"extra", "filter", "page", "include", "sort", "fields"}

\* The params a builder adds to those of its receiver
C6_NewParams ==
  CASE last.op = "extra" -> last.args.props
    [] last.op = "filter" -> filterParams(pre, last.args.props)
    [] last.op = "page" -> pageParams(last.args.value)
    [] last.op = "include" -> [include |-> Str(join(last.args.value.items, 1))]
    [] last.op = "sort" -> [sort |-> Str(join(last.args.value.items, 1))]
    [] last.op = "fields" -> [fields |-> Str(join(last.args.value.items, 1))]

C6_OldParams ==
  IF isNull(pre[last.target].params) THEN NoKeys
  ELSE pre[last.target].params.f

\* C6: extra, filter, page, include, sort and fields leave every object that
\* existed as it was, the receiver included, send nothing, and return a new
\* Collection that is unfetched, has the receiver's url, and whose params are
\* the receiver's with the new ones laid over them.
C6_BuildersArePure ==
  last.op \in Builders =>
    /\ Len(heap) = Len(pre) + 1
    /\ SubSeq(heap, 1, Len(pre)) = pre
    /\ Sent = 0
    /\ last.ret = Ref(Len(heap))
    /\ heap[Len(heap)].cls = "Collection"
    /\ heap[Len(heap)].url = pre[last.target].url
    /\ isNull(heap[Len(heap)].data)
    /\ isNull(heap[Len(heap)].next)
    /\ isNull(heap[Len(heap)].previous)
    /\ isObject(heap[Len(heap)].params)
    /\ DOMAIN heap[Len(heap)].params.f =
         (DOMAIN C6_OldParams) \cup (DOMAIN C6_NewParams)
    /\ \A k \in DOMAIN C6_NewParams :
          heap[Len(heap)].params.f[k] = C6_NewParams[k]
    /\ \A k \in (DOMAIN C6_OldParams) \ (DOMAIN C6_NewParams) :
          heap[Len(heap)].params.f[k] = C6_OldParams[k]

C6_Witness ==
  /\ last.op = "sort"
  /\ ~isNull(pre[last.target].data)
  /\ "sort" \in DOMAIN C6_OldParams
  /\ C6_OldParams["sort"] # C6_NewParams["sort"]

\* C7: when reload is answered a 3xx with a Location, the resource keeps its
\* id, attributes, links, relationships (data and links) and related
\* objects, and redirect is the Location.
C7_RedirectKeepsState ==
  (last.op = "reload" /\ last.resp = "redirect")
  => /\ last.out = "ok"
     /\ heap[Self] = [pre[Self] EXCEPT !.redirect = Location]

\* C8: a delete that succeeds has sent one DELETE to the item url and has
\* changed the id, to null, and nothing else; the request of a save that
\* follows is a POST to the collection url without an id, with the
\* attributes the resource had, and that save does send it when every
\* relationship of the resource is a singular one with its data.
C8_DeleteClearsOnlyId ==
  /\ (last.op = "delete" /\ last.out = "ok")
     => /\ Sent = 1
        /\ log[Len(log)].method = "delete"
        /\ log[Len(log)].url = getItemUrl(pre, Self)
        /\ heap = [pre EXCEPT ![Self].id = Null]
  /\ (last.op = "save" /\ prev.op = "delete" /\ prev.out = "ok" /\ Sent > 0)
     => /\ Sent = 1
        /\ log[Len(log)].method = "post"
        /\ log[Len(log)].url = Str("/children")
        /\ "id" \notin Keys(SentData)
        /\ last.step = "call"
           => \A k \in Keys(Get(SentData, "attributes")) :
                 Get(Get(SentData, "attributes"), k) = heap[Self].attributes[k]
        /\ (last.args.fields = <<>> /\ DOMAIN last.args.props = {})
           => (IF DOMAIN pre[Self].attributes = {}
               THEN "attributes" \notin Keys(SentData)
               ELSE Get(SentData, "attributes") = Obj(pre[Self].attributes))
  /\ (/\ last.op = "save" /\ prev.op = "delete" /\ prev.out = "ok"
      /\ last.args.fields = <<>> /\ DOMAIN last.args.props = {}
      /\ \A k \in DOMAIN pre[Self].relationships :
            /\ k \in DOMAIN pre[Self].related
            /\ isObject(Get(pre[Self].relationships[k], "data")))
     => Sent = 1

C8_Witness ==
  /\ last.op = "save"
  /\ prev.op = "delete"
  /\ prev.out = "ok"
  /\ Sent = 1
  /\ isNull(heap[Self].id)
  /\ Get(SentData, "attributes") = Obj([name |-> Str("x")])

\* C9: the request of save is a PATCH to the item url, with the id, when
\* the id is set, and a POST to the collection url when it is not; the
\* request of create is a POST to the collection url that carries the id
\* when the caller gave one; and save and create, called without arguments,
\* do send their request when every relationship of the resource is a
\* singular one with its data.
C9_SaveRouting ==
  /\ (/\ last.op \in {"save", "create"}
      /\ last.args.fields = <<>> /\ DOMAIN last.args.props = {}
      /\ \A k \in DOMAIN pre[Self].relationships :
            /\ k \in DOMAIN pre[Self].related
            /\ isObject(Get(pre[Self].relationships[k], "data")))
     => Sent = 1
  /\ (last.op = "save" /\ Sent > 0)
     => /\ Sent = 1
        /\ IF Truthy(pre[Self].id)
           THEN /\ log[Len(log)].method = "patch"
                /\ log[Len(log)].url = getItemUrl(pre, Self)
                /\ Get(SentData, "id") = pre[Self].id
           ELSE /\ log[Len(log)].method = "post"
                /\ log[Len(log)].url = Str("/children")
                /\ "id" \notin Keys(SentData)
  /\ (last.op = "create" /\ Sent > 0)
     => /\ Sent = 1
        /\ log[Len(log)].method = "post"
        /\ log[Len(log)].url = Str("/children")
        /\ IF Truthy(pre[Self].id) THEN Get(SentData, "id") = pre[Self].id
           ELSE "id" \notin Keys(SentData)

C9_Witness ==
  /\ last.op = "create"
  /\ pre[Self].id = Str("1")
  /\ Sent = 1
  /\ log[Len(log)].method = "post"
  /\ Get(SentData, "id") = Str("1")

\* A relationship as a request body carries it: { data: { type, id } }
C10_Identifier(v) ==
  /\ isObject(v)
  /\ DOMAIN v.f = {"data"}
  /\ isResourceIdentifier(v.f["data"])
  /\ DOMAIN v.f["data"].f = {"type", "id"}

\* C10: a save called without a field list and without overrides sends every
\* key of attributes and every key of related, each relationship as
\* { data: { type, id } }, and it gets as far as sending its request
\* whenever every relationship of the resource is singular or null.
C10_DefaultFieldList ==
  (last.op = "save" /\ last.args.fields = <<>> /\ DOMAIN last.args.props = {})
  => /\ Sent > 0
        => /\ Keys(Get(SentData, "attributes")) = DOMAIN pre[Self].attributes
           /\ Keys(Get(SentData, "relationships")) = DOMAIN pre[Self].related
           /\ \A k \in DOMAIN pre[Self].related :
                 C10_Identifier(Get(Get(SentData, "relationships"), k))
     /\ (\A k \in DOMAIN pre[Self].relationships :
            \/ isNull(pre[Self].relationships[k])
            \/ isObject(Get(pre[Self].relationships[k], "data")))
        => Sent = 1

\* The field list save ends up with, and the names in it that are neither an
\* attribute nor a relationship when the request body is built
C11_FinalFields == last.args.fields \o KeyOrder(DOMAIN last.args.props)

C11_Unknown ==
  {f \in Range(C11_FinalFields) :
     /\ f \notin DOMAIN heap[Self].attributes
     /\ f \notin DOMAIN heap[Self].relationships}

\* A field of the list that is an attribute is sent as one, and not as a
\* relationship, whether or not a relationship has its name.
C11_AttributeFirst ==
  \A f \in Range(C11_FinalFields) \cap DOMAIN heap[Self].attributes :
     /\ Get(Get(SentData, "attributes"), f) = heap[Self].attributes[f]
     /\ f \notin Keys(Get(SentData, "relationships"))

\* C11: a save whose field list names a field that is neither an attribute
\* nor a relationship throws the unknown-field error and sends nothing; a
\* field that is an attribute is sent as an attribute even when a
\* relationship has the same name.
C11_UnknownFieldError ==
  (last.op = "save" /\ last.step = "call")
  => /\ C11_Unknown # {}
        => (last.out = "threw" /\ last.ret = Str("Unknown field") /\ Sent = 0)
     /\ Sent > 0 => C11_AttributeFirst

\* What does hold: such a save throws and sends nothing, and what it throws
\* is the unknown-field error when no relationship named in the list is
\* null or has null data.
C11_UnknownFieldThrows ==
  (last.op = "save" /\ last.step = "call")
  => /\ C11_Unknown # {}
        => /\ last.out = "threw"
           /\ Sent = 0
           /\ (\A f \in Range(C11_FinalFields) :
                 f \in DOMAIN heap[Self].relationships
                 => /\ ~isNull(heap[Self].relationships[f])
                    /\ ~isNull(Get(heap[Self].relationships[f], "data")))
              => last.ret = Str("Unknown field")
     /\ Sent > 0 => C11_AttributeFirst

C11_SameName ==
  /\ last.op = "save"
  /\ last.step = "call"
  /\ last.args.fields = <<"parent">>
  /\ "parent" \in DOMAIN heap[Self].attributes
  /\ "parent" \in DOMAIN heap[Self].relationships
  /\ Sent = 1
  /\ Get(SentData, "attributes") = Obj([parent |-> Str("p")])

\* A save or create, called without overrides, has been answered a 2xx.
C12_Saved ==
  /\ last.op \in {"save", "create"}
  /\ last.step = "resume"
  /\ last.resp = "ok"
  /\ DOMAIN last.args.props = {}

\* What the response reports of relationship f: its envelope, type and id
C12_Reported(f) == Get(Get(Get(last.body, "data"), "relationships"), f)
C12_ReportedId(f) == Get(Get(C12_Reported(f), "data"), "id")
C12_ReportedType(f) == Get(Get(C12_Reported(f), "data"), "type")

\* The fields that had a resolved related object before the save
C12_Resolved == {f \in DOMAIN pre[Self].related :
                   isResource(pre, pre[Self].related[f])}

C12_Kept(f) ==
  /\ relatedOf(heap, Self, f) = pre[Self].related[f]
  /\ heap[pre[Self].related[f].oid] = pre[pre[Self].related[f].oid]

C12_Replaced(f) ==
  /\ isResource(heap, relatedOf(heap, Self, f))
  /\ heap[relatedOf(heap, Self, f).oid].id = C12_ReportedId(f)
  /\ heap[relatedOf(heap, Self, f).oid].TYPE = C12_ReportedType(f)

C12_Reseeded ==
  /\ heap[Self].id = Get(Get(last.body, "data"), "id")
  /\ Obj(heap[Self].attributes) = Get(Get(last.body, "data"), "attributes")

\* C12: after a successful save, whatever the response body, a related
\* object whose id the response reports again is kept as it was, one whose
\* reported id is another non-empty id is replaced by a resource of the
\* reported type and id, one for which no id is reported is dropped, and the
\* instance holds the id and attributes of the response.
C12_PostSaveReconciles ==
  C12_Saved
  => /\ last.out = "ok"
     /\ C12_Reseeded
     /\ \A f \in C12_Resolved :
           IF C12_ReportedId(f) = pre[pre[Self].related[f].oid].id
           THEN C12_Kept(f)
           ELSE IF Truthy(C12_ReportedId(f)) THEN C12_Replaced(f)
                ELSE f \notin DOMAIN heap[Self].related

\* What does hold: when the response reports no relationship as empty and
\* reports, for every resolved related object, the id it has, the save
\* succeeds, the objects are kept and the instance is re-seeded.
C12_SameIdKept ==
  (/\ C12_Saved
   /\ \A f \in Keys(Get(Get(last.body, "data"), "relationships")) :
         isObject(Get(C12_Reported(f), "data"))
   /\ \A f \in DOMAIN pre[Self].related :
         /\ isResource(pre, pre[Self].related[f])
         /\ C12_ReportedId(f) = pre[pre[Self].related[f].oid].id)
  => /\ last.out = "ok"
     /\ C12_Reseeded
     /\ \A f \in C12_Resolved : C12_Kept(f)

C12_SameId ==
  /\ C12_Saved
  /\ last.out = "ok"
  /\ C12_Resolved = {"parent"}
  /\ C12_ReportedId("parent") = Str("3")
  /\ isSingularFetched(heap, heap[Self].related["parent"])

----------------------------------------------------------------------------
(* C13: side-loaded resources *)

\* A resource has been built from a document with an `included` list, and
\* possibly read since.
C13_Built ==
  \/ last.op = "new" /\ last.args.form = "included" /\ last.out = "ok"
  \/ last.op = "get" /\ last.args.form = "read"

C13_Included == last.args.doc["included"].items

\* The relationships the document names, in either form
C13_Given ==
  IF "relationships" \in DOMAIN last.args.doc
  THEN last.args.doc["relationships"].f
  ELSE [k \in DOMAIN last.args.doc \ {"id", "included"} |-> last.args.doc[k]]

C13_Plural(f) == isList(Get(C13_Given[f], "data"))

\* The identifier of the singular relationship f, and of row i of a plural one
C13_Identifier(f, i) ==
  IF i > 0 THEN C13_Given[f].f["data"].items[i]
  ELSE IF hasData(C13_Given[f]) THEN C13_Given[f].f["data"] ELSE C13_Given[f]

\* The included entries with the type and the id of the identifier
C13_Matches(ident) ==
  {n \in 1..Len(C13_Included) :
     /\ C13_Included[n].f["type"] = ident.f["type"]
     /\ C13_Included[n].f["id"] = ident.f["id"]}

\* What the resource holds for the relationship f (row i of it)
C13_Related(f, i) ==
  readRow(heap, get(heap, last.target, f), i)

C13_Full(r, entry) ==
  \A a \in Keys(Get(entry, "attributes")) :
     get(heap, r.oid, a) = entry.f["attributes"].f[a]

C13_Stub(r) ==
  /\ heap[r.oid].attributes = NoKeys
  /\ heap[r.oid].relationships = NoKeys
  /\ heap[r.oid].related = NoKeys

C13_Resolved(f, i) ==
  /\ isResource(heap, C13_Related(f, i))
  /\ heap[C13_Related(f, i).oid].TYPE = C13_Identifier(f, i).f["type"]
  /\ heap[C13_Related(f, i).oid].id = C13_Identifier(f, i).f["id"]
  /\ IF C13_Matches(C13_Identifier(f, i)) = {}
     THEN C13_Stub(C13_Related(f, i))
     ELSE \A n \in C13_Matches(C13_Identifier(f, i)) :
             C13_Full(C13_Related(f, i), C13_Included[n])

\* The rows of the relationship f: 0 for a singular one
C13_Rows(f) ==
  IF C13_Plural(f) THEN 1..Len(C13_Given[f].f["data"].items) ELSE {0}

\* The read has returned the attribute of the entry that matches.
C13_ReadIsIncluded ==
  (/\ last.op = "get"
   /\ last.args.field \in DOMAIN C13_Given
   /\ last.args.row \in C13_Rows(last.args.field))
  => /\ last.out = "ok"
     /\ heap = pre
     /\ \A n \in C13_Matches(C13_Identifier(last.args.field, last.args.row)) :
           last.args.attr \in Keys(Get(C13_Included[n], "attributes"))
           => last.ret = C13_Included[n].f["attributes"].f[last.args.attr]

\* C13: a resource built from a document with an `included` list holds, for
\* every relationship identifier (singular, or a row of a plural data list)
\* that matches an included entry by type and id, the resource of that entry
\* with its attributes, and a bare stub for every other identifier; reading
\* an attribute of the related resource returns the included value; neither
\* the construction nor the read sends a request.
C13_IncludedResolves ==
  C13_Built =>
    /\ log = <<>>
    /\ \A f \in DOMAIN C13_Given : \A i \in C13_Rows(f) : C13_Resolved(f, i)
    /\ C13_ReadIsIncluded

\* child.get('parent').get('name') has returned the name of the included
\* parent, and the second row of the children is a stub.
C13_Witness ==
  /\ last.op = "get" /\ last.args.form = "read"
  /\ last.args.field = "parent" /\ last.args.attr = "name"
  /\ last.ret = Str("Zeus")
  /\ "children" \in DOMAIN C13_Given
  /\ C13_Matches(C13_Identifier("children", 1)) # {}
  /\ C13_Matches(C13_Identifier("children", 2)) = {}
  /\ C13_Stub(C13_Related("children", 2))
  /\ get(heap, C13_Related("children", 1).oid, "name") = Str("Hercules")

----------------------------------------------------------------------------
(* C14, C15: the traversal of the pages *)

\* The pages follow the links: the receiver, then the Collection of the
\* `next` of the page before, no page twice.
C14_Chain(g) ==
  /\ heap[g].pages # <<>> => heap[g].pages[1] = heap[g].this
  /\ \A i \in 2..Len(heap[g].pages) :
        /\ heap[heap[g].pages[i]].cls = "Collection"
        /\ Truthy(heap[heap[g].pages[i - 1]].next)
        /\ heap[heap[g].pages[i]].url = heap[heap[g].pages[i - 1]].next
  /\ \A i \in 1..Len(heap[g].pages), j \in 1..Len(heap[g].pages) :
        i # j => /\ heap[g].pages[i] # heap[g].pages[j]
                 /\ heap[heap[g].pages[i]].url # heap[heap[g].pages[j]].url

\* The rows of the pages i.. of a list of pages, in page and row order
RECURSIVE C14_Rows(_, _)
C14_Rows(pages, i) ==
  IF i > Len(pages) THEN <<>>
  ELSE heap[pages[i]].data.items \o C14_Rows(pages, i + 1)

\* What the traversal has yielded: its pages, or the rows of its pages but
\* for the rows of the last one that are still to come
C14_Yielded(g) ==
  IF heap[g].kind = "allPages"
  THEN heap[g].out = [i \in 1..Len(heap[g].pages) |-> Ref(heap[g].pages[i])]
  ELSE /\ heap[g].pages = <<>> => heap[g].out = <<>>
       /\ heap[g].pages # <<>> =>
            heap[g].out =
              C14_Rows(SubSeq(heap[g].pages, 1, Len(heap[g].pages) - 1), 1)
              \o SubSeq(heap[heap[g].page].data.items, 1, heap[g].row)

\* The pages the traversal had to fetch: those it has been at and the one it
\* awaits, but for a receiver that had its data
C14_ToFetch(g) ==
  ({heap[g].pages[i] : i \in 1..Len(heap[g].pages)} \cup
   ({heap[g].fetching} \ {0}))
  \ (IF heap[g].warm THEN {heap[g].this} ELSE {})

C14_OneRequestEach(g) ==
  /\ {log[i].by : i \in 1..Len(log)} = C14_ToFetch(g)
  /\ Len(log) = Cardinality(C14_ToFetch(g))
  /\ \A i \in 1..Len(log) : log[i].url = heap[log[i].by].url

\* Every request was sent while a call of next() had yet to be answered, and
\* nothing was yielded that was not asked for.
C14_OnDemand(g) ==
  /\ \A i \in 1..Len(log) : log[i].asks > log[i].yields
  /\ Len(heap[g].out) <= heap[g].asks

\* C14: allPages() yields the receiver and then the page of each `next`
\* link, in link order and once each; all() yields the rows of those pages
\* in page order, then row order; one request is sent for each page that
\* did not have its data, and only while the consumer waits for an element.
C14_LazyTraversal ==
  \A g \in Generators(heap) :
     /\ C14_Chain(g)
     /\ C14_Yielded(g)
     /\ C14_OneRequestEach(g)
     /\ C14_OnDemand(g)

\* all() on a list that was not fetched has gone through three pages with
\* three requests and has yielded their rows.
C14_Witness ==
  \E g \in Generators(heap) :
     /\ heap[g].kind = "all" /\ ~heap[g].warm
     /\ heap[g].state = "done"
     /\ Len(heap[g].pages) = 3
     /\ Len(log) = 3
     /\ Len(heap[g].out) >= 3

C15_Traversing == Generators(heap) # {}

C15_Ended ==
  \E g \in Generators(heap) : heap[g].state \in {"done", "threw"}

\* A traversal that has ended is at a page without `next`, has been at no
\* such page before, and has yielded every row of it.
C15_EndsAtFirstAbsent ==
  \A g \in Generators(heap) :
     heap[g].state = "done" =>
       /\ heap[g].pages # <<>>
       /\ heap[g].page = heap[g].pages[Len(heap[g].pages)]
       /\ ~Truthy(heap[heap[g].page].next)
       /\ \A i \in 1..(Len(heap[g].pages) - 1) :
             Truthy(heap[heap[g].pages[i]].next)
       /\ heap[g].kind = "all" =>
             heap[g].row = Len(heap[heap[g].page].data.items)

----------------------------------------------------------------------------
(* C16: Collection.get *)

\* The Collection get has built with filter, and the rows of the answer
C16_Filtered == last.args.value.oid
C16_Answered == last.body.f["data"].items

\* get has sent its request: one, by the filtered Collection, to the url of
\* the receiver with the receiver's params and the filter's.
C16_OneFilteredFetch ==
  /\ Sent = 1
  /\ log[Len(log)].by = C16_Filtered
  /\ log[Len(log)].method = "get"
  /\ log[Len(log)].url = pre[last.target].url
  /\ log[Len(log)].params =
       Obj(Spread(IF isNull(pre[last.target].params) THEN NoKeys
                  ELSE pre[last.target].params.f,
                  [k \in {"filter[" \o f \o "]" : f \in DOMAIN last.args.props}
                     |-> last.args.props[CHOOSE f \in DOMAIN last.args.props :
                                           "filter[" \o f \o "]" = k]]))
  /\ heap[last.target] = pre[last.target]

\* The only row of the answer is what get returns.
C16_TheRow ==
  /\ last.out = "ok"
  /\ isResource(heap, last.ret)
  /\ heap[last.ret.oid].TYPE = C16_Answered[1].f["type"]
  /\ heap[last.ret.oid].id = C16_Answered[1].f["id"]
  /\ heap[last.ret.oid].attributes =
       (IF "attributes" \in DOMAIN C16_Answered[1].f
        THEN C16_Answered[1].f["attributes"].f ELSE NoKeys)

C16_Error ==
  CASE Len(C16_Answered) = 0 -> Str("Does not exist")
    [] Len(C16_Answered) = 2 -> Str("Multiple objects returned (2)")
    [] Len(C16_Answered) = 3 -> Str("Multiple objects returned (3)")
    [] OTHER -> Undefined

\* C16: Collection.get(filters) sends one request, that of the Collection
\* filter(filters) gives; answered one row it returns that row, answered none
\* it throws 'Does not exist', answered n > 1 it throws 'Multiple objects
\* returned (n)'; the receiver is left as it was, unfetched if it was.
C16_GetExactlyOne ==
  /\ (last.op = "get" /\ last.step = "call") => C16_OneFilteredFetch
  /\ (last.op = "get" /\ last.step = "resume" /\ last.resp = "ok") =>
       /\ Cardinality(RequestsOf(C16_Filtered)) = 1
       /\ heap[last.target] = pre[last.target]
       /\ IF Len(C16_Answered) = 1 THEN C16_TheRow
          ELSE last.out = "threw" /\ last.ret = C16_Error

\* get on the unfetched list was answered two rows and threw the error that
\* names 2; the list is still unfetched.
C16_Witness ==
  /\ last.op = "get" /\ last.step = "resume" /\ last.resp = "ok"
  /\ Len(C16_Answered) = 2
  /\ last.ret = Str("Multiple objects returned (2)")
  /\ isNull(heap[last.target].data)
  /\ prev.op = "get" /\ prev.step = "resume" /\ prev.out = "ok"

----------------------------------------------------------------------------
(* C17: the parameters of filter *)

\* s with every `][` replaced by `__`
RECURSIVE C17_Unbracketed(_, _)
C17_Unbracketed(s, i) ==
  IF i > Len(s) THEN ""
  ELSE IF i < Len(s) /\ SubSeq(s, i, i + 1) = "]["
       THEN "__" \o C17_Unbracketed(s, i + 2)
       ELSE SubSeq(s, i, i) \o C17_Unbracketed(s, i + 1)

\* The filter key a parameter name stands for: k for filter[p1]...[pn] when
\* p1__...__pn is k; "]", which is no key, for any other name
C17_KeyOf(name) ==
  IF Len(name) >= 8 /\ SubSeq(name, 1, 7) = "filter[" /\
     SubSeq(name, Len(name), Len(name)) = "]"
  THEN C17_Unbracketed(SubSeq(name, 8, Len(name) - 1), 1)
  ELSE "]"

C17_Unsplit(name) ==
  \E i \in 1..(Len(name) - 1) : SubSeq(name, i, i + 1) = "__"

C17_Params == heap[Len(heap)].params.f

C17_Value(v) ==
  IF v.kind = "ref" /\ heap[v.oid].cls = "Resource" THEN heap[v.oid].id ELSE v

\* C17: filter(m) gives a Collection that has, for every key k of m, one
\* parameter filter[p1]...[pn], p1..pn being k split at every `__`, whose
\* value is m[k], or the id of m[k] when that is a Resource; every other
\* parameter is one of the receiver's; { a: 'b', c__d: 'e' } gives
\* { 'filter[a]': 'b', 'filter[c][d]': 'e' }.
C17_FilterParameters ==
  last.op = "filter" =>
    /\ \A k \in DOMAIN last.args.props :
          /\ Cardinality({n \in DOMAIN C17_Params : C17_KeyOf(n) = k}) = 1
          /\ \A n \in DOMAIN C17_Params :
                C17_KeyOf(n) = k =>
                  /\ C17_Params[n] = C17_Value(last.args.props[k])
                  /\ ~C17_Unsplit(n)
    /\ \A n \in DOMAIN C17_Params :
          \/ C17_KeyOf(n) \in DOMAIN last.args.props
          \/ n \in DOMAIN C6_OldParams /\ C17_Params[n] = C6_OldParams[n]
    /\ (last.args.props = [a |-> Str("b"), c__d |-> Str("e")] /\
        C6_OldParams = NoKeys)
       => C17_Params = ("filter[a]" :> Str("b")) @@ ("filter[c][d]" :> Str("e"))

\* filter was called with keys of three segments, of an odd run of
\* underscores and of an empty first segment, and with a Resource as a value.
C17_Witness ==
  /\ last.op = "filter"
  /\ DOMAIN last.args.props = {"a__b__c", "a___b", "__a"}
  /\ DOMAIN C6_OldParams = {"filter[a]", "filter[c][d]"}
  /\ DOMAIN C17_Params =
       {"filter[a]", "filter[c][d]", "filter[a][b][c]", "filter[a][_b]",
        "filter[][a]"}
  /\ C17_Params["filter[a][_b]"] = Str("3")

----------------------------------------------------------------------------
(* C18: page, include, sort, fields and the type-level list methods *)

C18_TypeLevel ==
  {"Resource.filter", "Resource.page", "Resource.include", "Resource.sort",
   "Resource.fields"}

\* The list method called last, on a Collection or on the type
C18_Method ==
  CASE last.op \in {"filter", "Resource.filter"} -> "filter"
    [] last.op \in {"page", "Resource.page"} -> "page"
    [] last.op \in {"include", "Resource.include"} -> "include"
    [] last.op \in {"sort", "Resource.sort"} -> "sort"
    [] last.op \in {"fields", "Resource.fields"} -> "fields"
    [] OTHER -> "none"

\* The params of the receiver: none for a call on the type
C18_Old == IF last.op \in C18_TypeLevel THEN NoKeys ELSE C6_OldParams

C18_New == heap[Len(heap)].params.f

\* Every parameter but those named is one the receiver had.
C18_OthersKept(names) ==
  /\ DOMAIN C18_New = names \cup DOMAIN C18_Old
  /\ \A n \in DOMAIN C18_Old \ names : C18_New[n] = C18_Old[n]

C18_PageParameters ==
  IF isObject(last.args.value)
  THEN /\ \A k \in DOMAIN last.args.value.f :
             /\ ("page[" \o k \o "]") \in DOMAIN C18_New
             /\ C18_New["page[" \o k \o "]"] = last.args.value.f[k]
       /\ C18_OthersKept({"page[" \o k \o "]" : k \in DOMAIN last.args.value.f})
  ELSE /\ "page" \in DOMAIN C18_New
       /\ C18_New["page"] = last.args.value
       /\ C18_OthersKept({"page"})

\* The one parameter holds the names with a comma between any two.
C18_JoinedNames ==
  /\ C18_Method \in DOMAIN C18_New
  /\ C18_New[C18_Method].kind = "str"
  /\ IF last.args.value.items = <<>> THEN C18_New[C18_Method].v = ""
     ELSE split(C18_New[C18_Method].v, ",") = last.args.value.items
  /\ C18_OthersKept({C18_Method})

\* The call on the type comes after the same call, with the same arguments,
\* on the Collection list() gave.
C18_AfterListThenMethod ==
  /\ last.op \in C18_TypeLevel
  /\ prev.op = C18_Method
  /\ prev.args = last.args
  /\ prev.target = Len(ListHeap)
  /\ nops = 2

\* C18: page(arg) gives the parameter page[k] for every key k of a plain
\* object and the parameter page for any other argument; include, sort and
\* fields give one parameter, their names joined with commas; a list method
\* called on the type gives a Collection equal to the one list() followed by
\* that method gives.
C18_ListMethods ==
  /\ C18_Method = "page" => C18_PageParameters
  /\ C18_Method \in {"include", "sort", "fields"} => C18_JoinedNames
  /\ last.op \in C18_TypeLevel =>
       /\ heap[Len(heap) - 1] = NewCollection(Str("/children"), Null)
       /\ heap[Len(heap)].url = Str("/children")
       /\ isNull(heap[Len(heap)].data)
  /\ C18_AfterListThenMethod => heap[last.ret.oid] = heap[prev.ret.oid]

\* api.Child.page({ a: 'b', c: 'd' }) after api.Child.list().page({ a: 'b',
\* c: 'd' }): both have page[a] and page[c].
C18_Witness ==
  /\ C18_AfterListThenMethod
  /\ last.op = "Resource.page"
  /\ C18_New = ("page[a]" :> Str("b")) @@ ("page[c]" :> Str("d"))
  /\ heap[prev.ret.oid].params.f = C18_New

----------------------------------------------------------------------------
(* C19: the constructor and setup *)

\* The host and the auth a props object gives: undefined when it has none
C19_Given(k) == Default(last.args.props, k, Undefined)

\* setup(props) was called on a connection built without props, right after
\* another connection was built with the same props.
C19_SetupAfterConstruct ==
  /\ last.op = "setup"
  /\ prev.op = "new JsonApi"
  /\ prev.args.props = last.args.props
  /\ pre[last.target] = BlankApi
  /\ prev.target # last.target

C19_SameConnection ==
  /\ heap[last.target].host = heap[prev.target].host
  /\ called(heap[last.target].auth) = called(heap[prev.target].auth)

\* setup changes host and auth when they are given only, to what is given,
\* and nothing else.
C19_OnlyWhatIsGiven ==
  /\ heap[last.target].host # pre[last.target].host
       => /\ C19_Given("host") # Undefined
          /\ heap[last.target].host = C19_Given("host")
  /\ heap[last.target].auth # pre[last.target].auth
       => /\ C19_Given("auth") # Undefined
          /\ called(heap[last.target].auth).v =
               (IF C19_Given("auth").kind = "fn" THEN C19_Given("auth").result
                ELSE Obj([Authorization |->
                            Str("Bearer " \o C19_Given("auth").v)]))
  /\ heap[last.target].registry = pre[last.target].registry
  /\ Len(heap) = Len(pre)
  /\ \A o \in 1..Len(pre) : o # last.target => heap[o] = pre[o]

\* C19: a connection built with props has the host, and an auth that
\* returns the same, as one built without props on which setup(props) is
\* called; setup changes the host when a host is given only, the auth when
\* an auth is given only, and never the registry.
C19_SetupIsConstruct ==
  /\ C19_SetupAfterConstruct => C19_SameConnection
  /\ last.op = "setup" => C19_OnlyWhatIsGiven

\* new Api({ host, auth }) and then setup({ host, auth }) on the connection
\* built without props: both have the host given and the same headers.
C19_Witness ==
  /\ C19_SetupAfterConstruct
  /\ last.args.props = [host |-> Str("https://b.com"), auth |-> AuthFn]
  /\ heap[last.target].host = Str("https://b.com")
  /\ heap[prev.target].host = Str("https://b.com")
  /\ called(heap[prev.target].auth).v = AuthFn.result
  /\ pre[last.target].host = HOST

----------------------------------------------------------------------------
(* C20: the bound subtypes *)

\* The accessor of a registered class has been read.
C20_Read == last.op = "access"

C20_Parent ==
  CHOOSE parentCls \in Registered :
    last.args.key \in {parentCls.name, parentCls.TYPE}

\* What the read returned is the class bound to the connection.
C20_Bound ==
  /\ last.ret.kind = "ref"
  /\ heap[last.ret.oid].cls = "Class"
  /\ heap[last.ret.oid].TYPE = Str(C20_Parent.TYPE)
  /\ heap[last.ret.oid].API = last.target
  /\ C20_Parent.TYPE \in DOMAIN heap[last.target].registry
  /\ heap[last.target].registry[C20_Parent.TYPE] = last.ret

C20_ExtendsRegistered == heap[last.ret.oid].extends = C20_Parent.name

\* No step replaces the class a registry holds for a type, and no two
\* connections hold the same class.
C20_Cached ==
  /\ \A a \in Apis(pre) : \A type \in DOMAIN pre[a].registry :
        /\ type \in DOMAIN heap[a].registry
        /\ heap[a].registry[type] = pre[a].registry[type]
  /\ \A a \in Apis(heap), b \in Apis(heap) :
        a # b => \A s \in DOMAIN heap[a].registry,
                    u \in DOMAIN heap[b].registry :
                   heap[a].registry[s] # heap[b].registry[u]

\* C20: the accessors of a registered class, by class name and by type tag,
\* return on every read of one connection the same class, which extends the
\* registered class, has its TYPE, has the connection as its API and is the
\* registry's entry for the TYPE; two connections have different classes.
C20_BoundSubtype ==
  /\ C20_Cached
  /\ C20_Read => C20_Bound /\ C20_ExtendsRegistered

\* What holds of the accessors: all of that, but that the class extends the
\* registered class only if `new` has not registered a class for the type
\* on that connection before the first read.
C20_BoundUnlessInstantiated ==
  /\ C20_Cached
  /\ C20_Read =>
       /\ C20_Bound
       /\ C20_ExtendsRegistered \/ heap[last.ret.oid].extends = "Resource"
       /\ C20_Parent.TYPE \notin DOMAIN pre[last.target].registry
            => C20_ExtendsRegistered

\* api.Child is read after api.new({ type: 'children', id: '1' }).
C20_ReadAfterNew ==
  /\ C20_Read
  /\ last.args.key = "Child"
  /\ prev.op = "new" /\ prev.args.value = Str("children")
  /\ prev.target = last.target
  /\ heap[last.ret.oid].extends = "Resource"

----------------------------------------------------------------------------
(* Resource.follow *)

\* A fault the properties are tested against: follow without its test of
\* this.redirect.
canFollowAlways(h, o) == TRUE

\* resources.js 563: if (! this.redirect) throw
canFollow(h, o) == Truthy(h[o].redirect)

\* resources.js 566: axios.get(this.redirect), past the connection's request
followRequest(h, o) ==
  [method |-> "get", url |-> h[o].redirect, params |-> Undefined,
   data |-> Undefined, via |-> "axios.get"]

\* resource.follow(), up to its await
Follow ==
  /\ Idle
  /\ IF canFollow(heap, Self)
     THEN Await("follow", NoArgs, heap, Self, followRequest(heap, Self))
     ELSE Return("follow", NoArgs, heap, "threw",
                 Str("Cannot follow without redirect"))

\* What axios.get resolves or rejects with
FollowResponses ==
  {[kind |-> "ok", v |-> Str("Redirect output")],
   [kind |-> "ok", v |-> Obj([status |-> Num(200), data |-> Str("<html>")])],
   [kind |-> "fail", v |-> Obj([message |-> Str("Network Error")])]}

\* The rest of follow: the response as it came, or the failure as it came
FollowRespond(response) ==
  /\ pend # <<>>
  /\ pend[1].op = "follow"
  /\ Resume(heap, Outcome(response.kind = "fail"), response.v, response.kind)

\* A resource that is reloaded, has a relationship fetched, and is followed
NextFollow ==
  \/ Reload
  \/ \E a \in FetchArgs : Fetch(a[1], a[2])
  \/ \E r \in {OkResponse(b) : b \in ChildDocs \cup ParentDocs(Str("2"))}
              \cup {RedirectResponse, FailResponse} : ReloadRespond(r)
  \/ Follow
  \/ \E r \in FollowResponses : FollowRespond(r)

SpecFollow == Init /\ [][NextFollow]_vars

----------------------------------------------------------------------------
(* Resource.fetch, and the fetch of the Collection it returns *)

ChildrenSelfOnly ==
  Obj([links |-> Obj([self |-> Str("/children/1/relationships/children")])])

\* new api.Child(data): the documents of the scenario, and one whose plural
\* relationship has links without `related`
FetchInputs ==
  CtorInputs \cup
  {[id |-> Str("1"), attributes |-> Obj([name |-> Str("x")]),
    relationships |-> Obj([children |-> ChildrenSelfOnly])]}

InitFetch ==
  /\ heap \in {r.h : r \in {c \in {Constructed(data) : data \in FetchInputs} :
                               ~c.err}}
  /\ pend = <<>>
  /\ log = <<>>
  /\ last = [NoCall EXCEPT !.op = "new", !.target = Self]
  /\ pre = heap
  /\ prev = NoCall
  /\ nops = 0

\* The rest of a fetch that reloads the related resource
RelatedReloadRespond(response) ==
  /\ pend # <<>>
  /\ heap[pend[1].target].cls = "Resource"
  /\ ReloadRespond(response)

\* fetch() on a related Collection, called when nothing is awaited
RelatedFetch(c) == pend = <<>> /\ CollectionFetch(c)

RelatedFetchRespond(response) ==
  /\ pend # <<>>
  /\ heap[pend[1].target].cls = "Collection"
  /\ CollectionFetchRespond(1, response)

\* resource.fetch(name, force), called when nothing is awaited
FetchRelated(name, force) ==
  /\ pend = <<>>
  /\ nops < MaxCalls
  /\ Fetching(name, force)

NextFetch ==
  \/ \E a \in FetchArgs \cup {<<"children", TRUE>>, <<"bogus", FALSE>>} :
        FetchRelated(a[1], a[2])
  \/ \E r \in {OkResponse(b) : b \in ParentDocs(Str("2"))}
              \cup {RedirectResponse, FailResponse} : RelatedReloadRespond(r)
  \/ \E c \in Collections(heap) : RelatedFetch(c)
  \/ \E r \in ListResponses : RelatedFetchRespond(r)

SpecFetch == InitFetch /\ [][NextFetch]_vars

----------------------------------------------------------------------------
(* set, save and reload against a server that echoes what it is sent *)

MaxSteps == 3

\* The body of the i-th request: its `data` member
SentDataOf(i) == Get(log[i].data, "data")

\* The member the server holds of its document, after the requests up to
\* the i-th: what it had, overlaid by what every PATCH sent
RECURSIVE Held(_, _, _)
Held(member, first, i) ==
  IF i = 0 THEN first
  ELSE IF log[i].method = "patch" /\ member \in DOMAIN SentDataOf(i).f
       THEN Spread(Held(member, first, i - 1), SentDataOf(i).f[member].f)
       ELSE Held(member, first, i - 1)

\* The document the server answers a GET of the item with
Stored ==
  LET attributes == Held("attributes", [name |-> Str("srv")], Len(log))
      relationships == Held("relationships", NoKeys, Len(log))
      doc == [type |-> Str("children"), id |-> Str("1"),
              attributes |-> Obj(attributes)]
  IN  Obj([data |-> Obj(IF relationships = NoKeys THEN doc
                        ELSE Put(doc, "relationships", Obj(relationships)))])

RoundIdle == pend = <<>> /\ nops < MaxSteps

\* resource.set('name', value)
RoundSet(value) ==
  /\ RoundIdle
  /\ SetDone([NoArgs EXCEPT !.key = "name", !.value = value],
             set(heap, Self, "name", value))

\* resource.save(fields)
RoundSave(names) ==
  /\ RoundIdle
  /\ SaveSet([NoArgs EXCEPT !.fields = names], names,
             setLoop(heap, Self, NoKeys, <<>>, 1))

\* The server answers the PATCH with the document it was sent.
EchoSave ==
  /\ pend # <<>>
  /\ pend[1].op = "save"
  /\ SaveDone(postSave(heap, Self, OkResponse(log[Len(log)].data)),
              log[Len(log)].data)

\* resource.reload()
RoundReload ==
  /\ RoundIdle
  /\ Await("reload", NoArgs, heap, Self, GetRequest(heap, Self))

\* The server answers the GET with the document it holds.
EchoReload ==
  /\ pend # <<>>
  /\ pend[1].op = "reload"
  /\ ReloadDone(reloaded(heap, Self, OkResponse(Stored)), "ok")

\* The resources that exist on the server: those built with an id
InitRoundTrip ==
  /\ heap \in {r.h : r \in {c \in {Constructed(data) : data \in CtorInputs} :
                               ~c.err /\ c.h[Self].id = Str("1")}}
  /\ pend = <<>>
  /\ log = <<>>
  /\ last = [NoCall EXCEPT !.op = "new", !.target = Self]
  /\ pre = heap
  /\ prev = NoCall
  /\ nops = 0

NextRoundTrip ==
  \/ \E value \in {Str("y"), Str(""), Null} : RoundSet(value)
  \/ \E names \in {<<"name">>, <<>>} : RoundSave(names)
  \/ EchoSave
  \/ RoundReload
  \/ EchoReload

SpecRoundTrip == InitRoundTrip /\ [][NextRoundTrip]_vars

----------------------------------------------------------------------------
(* The bulk operations of a resource type *)

MaxBulk == 1

\* resources.js 573-583: the payload item bulkCreate builds of a resource
createItem(h, o, type) ==
  LET typed == [type |-> Str(type)]
      a == IF Size(h[o].attributes) > 0
           THEN Put(typed, "attributes", Obj(h[o].attributes)) ELSE typed
      r == IF Size(h[o].relationships) > 0
           THEN Put(a, "relationships", Obj(h[o].relationships)) ELSE a
  IN  Obj(IF Truthy(h[o].id) THEN Put(r, "id", h[o].id) ELSE r)

\* resources.js 571-584: the loop of bulkCreate
RECURSIVE createLoop(_, _, _, _, _)
createStep(type, args, i, data, r) ==
  IF r.err \/ ~isResource(r.h, r.v) THEN [h |-> r.h, data |-> data, err |-> TRUE]
  ELSE createLoop(r.h, type, args, i + 1,
                  Append(data, createItem(r.h, r.v.oid, type)))

createLoop(h, type, args, i, data) ==
  IF i > Len(args) THEN [h |-> h, data |-> data, err |-> FALSE]
  ELSE createStep(type, args, i, data, asResource(h, args[i]))

\* resources.js 594-603: the loop of bulkDelete
RECURSIVE deleteLoop(_, _, _, _, _)
deleteStep(type, args, i, data, r) ==
  IF r.err \/ ~isResource(r.h, r.v) THEN [h |-> r.h, data |-> data, err |-> TRUE]
  ELSE deleteLoop(r.h, type, args, i + 1,
                  Append(data, asResourceIdentifier(r.h, r.v.oid)))

deleteLoop(h, type, args, i, data) ==
  IF i > Len(args) THEN [h |-> h, data |-> data, err |-> FALSE]
  ELSE IF isResource(h, args[i])
       THEN deleteLoop(h, type, args, i + 1,
                       Append(data, asResourceIdentifier(h, args[i].oid)))
       ELSE IF args[i].kind = "obj"
            THEN deleteStep(type, args, i, data, asResource(h, args[i]))
            ELSE deleteLoop(h, type, args, i + 1,
                            Append(data, Obj([type |-> Str(type),
                                              id |-> args[i]])))

\* resources.js 616-631: the fields of one payload item of bulkUpdate
RECURSIVE updateItem(_, _, _, _, _)
updateItem(h, o, names, j, item) ==
  IF j > Len(names) THEN [v |-> Obj(item), err |-> FALSE]
  ELSE IF names[j] \in DOMAIN h[o].attributes
       THEN updateItem(h, o, names, j + 1,
                       Put(item, "attributes",
                           Obj(Put(IF "attributes" \in DOMAIN item
                                   THEN item["attributes"].f ELSE NoKeys,
                                   names[j], h[o].attributes[names[j]]))))
       ELSE IF names[j] \in DOMAIN h[o].relationships
            THEN updateItem(h, o, names, j + 1,
                            Put(item, "relationships",
                                Obj(Put(IF "relationships" \in DOMAIN item
                                        THEN item["relationships"].f ELSE NoKeys,
                                        names[j], h[o].relationships[names[j]]))))
            ELSE [v |-> Undefined, err |-> TRUE]

\* resources.js 613-633: the loop of bulkUpdate
RECURSIVE updateLoop(_, _, _, _, _)
updatePush(h, args, names, i, data, item) ==
  IF item.err THEN [h |-> h, data |-> data, err |-> TRUE]
  ELSE updateLoop(h, args, names, i + 1, Append(data, item.v))

updateStep(args, names, i, data, r) ==
  IF r.err \/ ~isResource(r.h, r.v) THEN [h |-> r.h, data |-> data, err |-> TRUE]
  ELSE updatePush(r.h, args, names, i, data,
                  updateItem(r.h, r.v.oid, names, 1,
                             asResourceIdentifier(r.h, r.v.oid).f))

updateLoop(h, args, names, i, data) ==
  IF i > Len(args) THEN [h |-> h, data |-> data, err |-> FALSE]
  ELSE updateStep(args, names, i, data, asResource(h, args[i]))

\* A fault the properties are tested against: one request for every item.
bulkRequestsEach(method, type, data) ==
  [i \in 1..Len(data) |->
     [method |-> method, url |-> Str("/" \o type), params |-> Undefined,
      data |-> Obj([data |-> List(<<data[i]>>)]), bulk |-> TRUE]]

\* resources.js 585-588, 605-608, 634-637: the one request of a bulk
\* operation
bulkRequests(method, type, data) ==
  <<[method |-> method, url |-> Str("/" \o type), params |-> Undefined,
     data |-> Obj([data |-> List(data)]), bulk |-> TRUE]>>

\* A bulk operation, up to the await of its request
BulkSend(op, args, method, type, built) ==
  /\ pend = <<>>
  /\ nops < MaxBulk
  /\ heap' = built.h
  /\ pre' = heap
  /\ prev' = last
  /\ nops' = nops + 1
  /\ IF built.err
     THEN /\ last' = Called(op, args, 0, "threw", Undefined)
          /\ UNCHANGED <<pend, log>>
     ELSE /\ last' = Called(op, args, 0, "pending", Undefined)
          /\ log' = log \o bulkRequests(method, type, built.data)
          /\ pend' = <<[op |-> op, args |-> args, target |-> 0]>>

\* api.Child.bulkCreate(args)
BulkCreate(type, args) ==
  BulkSend("bulkCreate", [NoArgs EXCEPT !.value = List(args)], "post", type,
           createLoop(heap, type, args, 1, <<>>))

\* api.Child.bulkDelete(args)
BulkDelete(type, args) ==
  BulkSend("bulkDelete", [NoArgs EXCEPT !.value = List(args)], "delete", type,
           deleteLoop(heap, type, args, 1, <<>>))

\* api.Child.bulkUpdate(args, fields)
BulkUpdate(type, args, names) ==
  BulkSend("bulkUpdate", [NoArgs EXCEPT !.value = List(args), !.fields = names],
           "patch", type, updateLoop(heap, args, names, 1, <<>>))

\* The rest of a bulk operation: the count of bulkDelete, or the Collection
\* of the response's rows
BulkRespond(response) ==
  /\ pend # <<>>
  /\ pend[1].op \in {"bulkCreate", "bulkDelete", "bulkUpdate"}
  /\ pend' = <<>>
  /\ UNCHANGED <<log, pre, prev, nops>>
  /\ IF response.kind = "fail"
     THEN /\ heap' = heap
          /\ last' = [last EXCEPT !.out = "failed", !.resp = "fail",
                                  !.step = "resume"]
     ELSE IF pend[1].op = "bulkDelete"
          THEN /\ heap' = heap
               /\ last' = [last EXCEPT
                             !.out = "ok", !.resp = "ok", !.step = "resume",
                             !.body = response.body,
                             !.ret = Num(Len(log[Len(log)].data.f["data"].items))]
          ELSE /\ heap' = Append(heap, fromData(response.body.f["data"].items,
                                                Str("")))
               /\ last' = [last EXCEPT
                             !.out = "ok", !.resp = "ok", !.step = "resume",
                             !.body = response.body,
                             !.ret = Ref(Len(heap) + 1)]

\* The resources the caller holds: two children, one of them with a parent
BulkHeap ==
  new(new(ExternalHeap,
          Obj([type |-> Str("children"), id |-> Str("1"),
               attributes |-> Obj([name |-> Str("x")])])).h,
      Obj([type |-> Str("children"), id |-> Str("2"),
           attributes |-> Obj([name |-> Str("y")]),
           relationships |-> Obj([parent |-> ParentEnvelope])])).h

\* What the caller passes as an item: a resource, a plain object, an id
BulkItems ==
  {Ref(Len(ExternalHeap) + 1), Ref(Len(ExternalHeap) + 2),
   Obj([type |-> Str("children"), attributes |-> Obj([name |-> Str("z")])]),
   Str("4")}

BulkArgs ==
  {<<>>} \cup {<<a>> : a \in BulkItems}
         \cup {<<a, b>> : a \in BulkItems, b \in BulkItems}

\* The documents the server answers a bulk request with
BulkRows ==
  {<<>>,
   <<Obj([type |-> Str("children"), id |-> Str("1"),
          attributes |-> Obj([name |-> Str("srv")])])>>,
   <<Obj([type |-> Str("children"), id |-> Str("1"),
          attributes |-> Obj([name |-> Str("srv")])]),
     Obj([type |-> Str("children"), id |-> Str("2")])>>}

BulkResponses ==
  {OkResponse(Obj([data |-> List(answer)])) : answer \in BulkRows}
  \cup {FailResponse}

InitBulk ==
  /\ heap = BulkHeap
  /\ pend = <<>>
  /\ log = <<>>
  /\ last = NoCall
  /\ pre = heap
  /\ prev = NoCall
  /\ nops = 0

NextBulk ==
  \/ \E args \in BulkArgs : BulkCreate("children", args)
  \/ \E args \in BulkArgs : BulkDelete("children", args)
  \/ \E args \in BulkArgs, names \in {<<"name">>, <<"name", "parent">>} :
        BulkUpdate("children", args, names)
  \/ \E response \in BulkResponses : BulkRespond(response)

SpecBulk == InitBulk /\ [][NextBulk]_vars

----------------------------------------------------------------------------
(* The edits of a relationship: change, add, reset and remove, and the     *)
(* fetch that follows them                                                 *)

\* resources.js 552-554: the identifiers of the values
RECURSIVE payloadLoop(_, _, _, _)
payloadStep(values, i, acc, r) ==
  IF r.err \/ ~isResource(r.h, r.v)
  THEN [h |-> r.h, items |-> acc, err |-> TRUE]
  ELSE payloadLoop(r.h, values, i + 1,
                   Append(acc, asResourceIdentifier(r.h, r.v.oid)))

payloadLoop(h, values, i, acc) ==
  IF i > Len(values) THEN [h |-> h, items |-> acc, err |-> FALSE]
  ELSE payloadStep(values, i, acc, asResource(h, values[i]))

\* A fault the properties are tested against: the edit is sent once for
\* every value.
editRequestsEach(method, url, items) ==
  [i \in 1..Len(items) |->
     [method |-> method, url |-> url, params |-> Null,
      data |-> Obj([data |-> List(<<items[i]>>)])]]

\* Resource._editRelationship(method, field, data), called with the list
editRequests(method, url, items) ==
  <<[method |-> method, url |-> url, params |-> Null,
     data |-> Obj([data |-> List(items)])]>>

EditSend(op, args, p, requests) ==
  IF p.err THEN Return(op, args, p.h, "threw", Str("TypeError"))
  ELSE /\ heap' = p.h
       /\ log' = log \o requests
       /\ pend' = <<[op |-> op, args |-> args, target |-> Self]>>
       /\ last' = Called(op, args, Self, "pending", Undefined)
       /\ pre' = heap
       /\ prev' = last
       /\ nops' = nops + 1

\* Resource._editPluralRelationship(method, field, values), up to its await
EditPlural(op, method, field, values, p) ==
  EditSend(op, [NoArgs EXCEPT !.key = field, !.value = List(values)], p,
           editRequests(method, relationshipUrl(p.h, Self, field), p.items))

\* resource.add(field, values), reset(field, values), remove(field, values)
Add(field, values) ==
  Idle /\ EditPlural("add", "post", field, values,
                     payloadLoop(heap, values, 1, <<>>))

Reset(field, values) ==
  Idle /\ EditPlural("reset", "patch", field, values,
                     payloadLoop(heap, values, 1, <<>>))

Remove(field, values) ==
  Idle /\ EditPlural("remove", "delete", field, values,
                     payloadLoop(heap, values, 1, <<>>))

\* The rest of add, reset and remove
EditRespond(response) ==
  /\ pend # <<>>
  /\ pend[1].op \in {"add", "reset", "remove"}
  /\ IF response.kind = "fail"
     THEN Resume(heap, "failed", Undefined, "fail")
     ELSE Resume(heap, "ok", Undefined, "ok")

\* The values change is called with: null, identifiers with the id of the
\* parent the scenario starts with and with another, and the caller's
\* parents; and two fields that are no relationship
EditChangeArgs ==
  {<<"parent", v>> : v \in {Null, Ident("parents", "2"), Ident("parents", "3"),
                            ParentStub, ParentFull}}
  \cup {<<"name", Ident("parents", "3")>>, <<"bogus", Null>>}

EditPluralArgs ==
  {<<"children", l>> :
      l \in {<<>>, <<Ident("children", "7")>>,
             <<Ident("children", "8"), ParentStub>>, <<Str("7")>>}}
  \cup {<<"bogus", <<Ident("children", "7")>>>>}

NextEdit ==
  \/ \E a \in EditChangeArgs : Change(a[1], a[2])
  \/ \E r \in EditResponses : ChangeRespond(r)
  \/ \E a \in EditPluralArgs : Add(a[1], a[2])
  \/ \E a \in EditPluralArgs : Reset(a[1], a[2])
  \/ \E a \in EditPluralArgs : Remove(a[1], a[2])
  \/ \E r \in EditResponses : EditRespond(r)
  \/ \E a \in FetchArgs : Fetch(a[1], a[2])
  \/ \E r \in {OkResponse(b) : b \in ParentDocs(Str("2")) \cup
                                    ParentDocs(Str("3"))}
              \cup {RedirectResponse, FailResponse} : ReloadRespond(r)

SpecEdit == Init /\ [][NextEdit]_vars

----------------------------------------------------------------------------
(* Requests that fail: the fetch of a Collection, and delete *)

\* fetch() on a Collection, called while nothing but fetches is awaited
FetchAgain(c) ==
  /\ \A i \in 1..Len(pend) : pend[i].op = "fetch"
  /\ \A i \in 1..Len(pend) : pend[i].target \in Collections(heap)
  /\ CollectionFetch(c)

\* The rest of any of the awaited fetches of a Collection
FetchAgainRespond(i, response) ==
  /\ i \in 1..Len(pend)
  /\ pend[i].target \in Collections(heap)
  /\ CollectionFetchRespond(i, response)

NextFailure ==
  \/ FetchRelated("children", FALSE)
  \/ \E c \in Collections(heap) : FetchAgain(c)
  \/ \E i \in 1..MaxCalls, r \in ListResponses : FetchAgainRespond(i, r)
  \/ Delete
  \/ \E r \in EditResponses : DeleteRespond(r)

SpecFailure == InitFetch /\ [][NextFailure]_vars

----------------------------------------------------------------------------
(* The classification of the flattened fields of a constructor document *)

\* The values a flattened field is given: those that look like a
\* relationship, and those that do not
ClassifyValues ==
  CtorValues \cup
  {ParentStub, ParentEnvelope, ParentEnvelopeLinks, ChildrenData,
   Obj([data |-> ParentStub]),
   Obj([data |-> List(<<Ident("children", "7"), ParentStub>>)]),
   List(<<ParentStub, Ident("children", "7")>>),
   Obj([data |-> List(<<>>)]), Obj([data |-> Str("s")]),
   Obj([data |-> Num(5)]), Obj([data |-> Obj([a |-> Str("b")])]),
   Obj([data |-> List(<<Str("a")>>)]), Num(5), Bool(TRUE)}

\* new api.Child({ name: v, parent: value }), with any of those as v
NextClassify ==
  \E name \in CtorNames, v \in ClassifyValues, value \in CtorRelated :
     NewFlattened(name, v, value)

SpecClassify == InitCtor /\ [][NextClassify]_vars

----------------------------------------------------------------------------
(* _setRelated on a relationship that is already held: set, reload and     *)
(* save of a child that has a parent and children                          *)

MaxNormalized == 2

ChildrenOf(ids) ==
  Obj([data |-> List([i \in 1..Len(ids) |-> Ident("children", ids[i])]),
       links |-> ChildrenLinks])

\* new api.Child(data): a child with a stub parent and one stub row, one
\* with neither, one with both side-loaded, and two with a parent alone
NormalizedInputs ==
  {[id |-> Str("1"), attributes |-> Obj([name |-> Str("x")]),
    relationships |-> Obj([parent |-> ParentEnvelopeLinks,
                           children |-> ChildrenData])],
   [id |-> Str("1"), attributes |-> Obj([name |-> Str("x")]),
    relationships |-> Obj([parent |-> Null,
                           children |-> ChildrenLinksOnly])],
   [id |-> Str("1"), attributes |-> Obj([name |-> Str("x")]),
    relationships |-> Obj([parent |-> ParentEnvelope,
                           children |-> ChildrenData]),
    included |-> List(<<IncludedParent, IncludedChild>>)],
   [id |-> Str("1"), attributes |-> Obj([name |-> Str("x")]),
    relationships |-> Obj([parent |-> ParentEnvelope])],
   [id |-> Str("1"), attributes |-> Obj([name |-> Str("x")]),
    relationships |-> Obj([parent |-> ParentEnvelope]),
    included |-> List(<<IncludedParent>>)]}

\* The values set is called with: for the parent null, the caller's two
\* parents, identifiers, an envelope and a document with attributes; for the
\* children lists of identifiers and of documents; for fields that are no
\* relationship a string and a resource
NormalizedSetArgs ==
  {<<"parent", v>> : v \in {Null, ParentStub, ParentFull,
                            Ident("parents", "2"), Ident("parents", "3"),
                            Ident("guardians", "2"), ParentEnvelopeLinks,
                            IncludedParent}}
  \cup {<<"name", Str("y")>>, <<"meta", ParentStub>>}
  \cup {<<"children", List(l)>> :
          l \in {<<Ident("children", "7")>>, <<Ident("children", "8")>>,
                 <<Ident("children", "7"), Ident("children", "8")>>,
                 <<IncludedChild>>}}

ChildDoc(rels) ==
  [data |-> Obj([type |-> Str("children"), id |-> Str("1"),
                 attributes |-> Obj([name |-> Str("srv")]),
                 relationships |-> Obj(rels)])]

\* The bodies the server answers the GET of the child with
NormalizedDocs ==
  {Obj(ChildDoc([parent |-> ParentEnvelopeLinks,
                 children |-> ChildrenOf(<<"7">>)])),
   Obj(ChildDoc([parent |-> Obj([data |-> Ident("parents", "3")]),
                 children |-> ChildrenOf(<<"7", "8">>)])),
   Obj(ChildDoc([parent |-> Null, children |-> ChildrenOf(<<"8">>)])),
   Obj(ChildDoc([parent |-> ParentEnvelope,
                 children |-> ChildrenOf(<<>>)])),
   Obj(Put(ChildDoc([parent |-> ParentEnvelope,
                     children |-> ChildrenOf(<<"7">>)]),
           "included", List(<<IncludedParent, IncludedChild>>)))}

InitNormalized ==
  /\ heap \in {r.h : r \in {c \in {Constructed(data) :
                                     data \in NormalizedInputs} : ~c.err}}
  /\ pend = <<>>
  /\ log = <<>>
  /\ last = [NoCall EXCEPT !.op = "new", !.target = Self]
  /\ pre = heap
  /\ prev = NoCall
  /\ nops = 0

Settling == pend = <<>> /\ nops < MaxNormalized

\* resource.set(key, value)
NormalizedSet(key, value) ==
  /\ Settling
  /\ SetDone([NoArgs EXCEPT !.key = key, !.value = value],
             set(heap, Self, key, value))

\* resource.fetch('children')
NormalizedFetch == Settling /\ Fetching("children", FALSE)

\* resource.reload(), up to its await
NormalizedReload ==
  /\ Settling
  /\ Await("reload", NoArgs, heap, Self, GetRequest(heap, Self))

\* The rest of reload; the record keeps the body that was answered
NormalizedReloadDone(r, body) ==
  /\ heap' = r.h
  /\ pend' = <<>>
  /\ last' = [last EXCEPT !.out = Outcome(r.err), !.resp = "ok",
                          !.body = body, !.step = "resume"]
  /\ UNCHANGED <<log, pre, prev, nops>>

NormalizedReloadRespond(response) ==
  /\ pend # <<>>
  /\ pend[1].op = "reload"
  /\ IF response.kind = "fail"
     THEN Resume(heap, "failed", Undefined, "fail")
     ELSE NormalizedReloadDone(reloaded(heap, Self, response), response.body)

\* resource.save(['name']) of a child that holds no Collection
NormalizedSave ==
  /\ Settling
  /\ "children" \notin DOMAIN heap[Self].related
  /\ SaveSet([NoArgs EXCEPT !.fields = <<"name">>], <<"name">>,
             [h |-> heap, err |-> FALSE])

NextNormalized ==
  \/ \E a \in NormalizedSetArgs : NormalizedSet(a[1], a[2])
  \/ NormalizedFetch
  \/ NormalizedReload
  \/ \E r \in {OkResponse(b) : b \in NormalizedDocs} \cup {FailResponse} :
        NormalizedReloadRespond(r)
  \/ NormalizedSave
  \/ \E r \in SaveResponses : SaveRespond(r)

SpecNormalized == InitNormalized /\ [][NextNormalized]_vars

----------------------------------------------------------------------------
(* JsonApi.request: what is handed to the transport, and how it ends *)

MaxRequests == 1

\* apis.js 54-56
absolute(h, a, url) ==
  IF url.kind = "str" /\ Len(url.v) > 0 /\ SubSeq(url.v, 1, 1) = "/"
  THEN Str(KeyStr(h[a].host) \o url.v)
  ELSE url

\* apis.js 58-65
contentType(bulk) ==
  IF Truthy(bulk) THEN Str("application/vnd.api+json;profile=\"bulk\"")
  ELSE Str("application/vnd.api+json")

\* Object.assign(target, source); a source that is null or undefined is
\* skipped
assign(target, source) ==
  IF source.kind = "obj" THEN Spread(target, source.f) ELSE target

\* apis.js 57-66
actualHeaders(auth, bulk, headers) ==
  assign(Put(auth.f, "Content-Type", contentType(bulk)), headers)

\* apis.js 52: ...props
rest(args) == PickBy(args, DOMAIN args \ {"url", "bulk", "headers", "maxRedirects"})

\* A fault the properties are tested against: the caller's headers are laid
\* under the connection's, not over them.
configUnder(h, a, args, auth) ==
  Spread([url |-> absolute(h, a, Default(args, "url", Undefined)),
          headers |->
            Obj(Spread(assign(NoKeys, Default(args, "headers", Obj(NoKeys))),
                       Put(auth.f, "Content-Type",
                           contentType(Default(args, "bulk", Bool(FALSE)))))),
          maxRedirects |-> Default(args, "maxRedirects", Num(0))],
         rest(args))

\* apis.js 69-74: the config axios.request is called with
config(h, a, args, auth) ==
  Spread([url |-> absolute(h, a, Default(args, "url", Undefined)),
          headers |->
            Obj(actualHeaders(auth, Default(args, "bulk", Bool(FALSE)),
                              Default(args, "headers", Obj(NoKeys)))),
          maxRedirects |-> Default(args, "maxRedirects", Num(0))],
         rest(args))

\* errors.js: new JsonApiException(status, errors)
JsonApiException(status, errors) ==
  [kind |-> "JsonApiException", status |-> status, errors |-> errors]

\* A fault the properties are tested against: every failure is rethrown as
\* it came.
rejectedAsIs(e) == e

\* apis.js 76-84: what request throws when axios.request rejected with e
rejected(e) ==
  IF Truthy(Get(Get(Get(e, "response"), "data"), "errors"))
  THEN JsonApiException(Get(Get(e, "response"), "status"),
                        Get(Get(Get(e, "response"), "data"), "errors"))
  ELSE e

\* api.request(args), up to the await of axios.request
ApiRequest(a, args) ==
  /\ pend = <<>>
  /\ nops < MaxRequests
  /\ IF called(heap[a].auth).err
     THEN /\ CollectionCalled("request", [NoArgs EXCEPT !.props = args], a,
                              "threw", Str("TypeError"))
          /\ UNCHANGED <<heap, pend, log>>
     ELSE Await("request", [NoArgs EXCEPT !.props = args], heap, a,
                config(heap, a, args, called(heap[a].auth).v))

\* axios.request resolved: the response is returned as it is
ApiRequestResolve(response) ==
  /\ pend # <<>> /\ pend[1].op = "request"
  /\ pend' = <<>>
  /\ last' = [last EXCEPT !.out = "ok", !.ret = response, !.resp = "ok",
                          !.body = response, !.step = "resume"]
  /\ UNCHANGED <<heap, log, pre, prev, nops>>

\* axios.request rejected with e
ApiRequestReject(e) ==
  /\ pend # <<>> /\ pend[1].op = "request"
  /\ pend' = <<>>
  /\ last' = [last EXCEPT !.out = "threw", !.ret = rejected(e),
                          !.resp = "fail", !.body = e, !.step = "resume"]
  /\ UNCHANGED <<heap, log, pre, prev, nops>>

\* The connections requests are sent on
RequestApis ==
  {NoKeys, [auth |-> Str("MYTOKEN")], [auth |-> AuthFn],
   [host |-> Str("https://b.com"), auth |-> AuthFn]}

RequestHeaders ==
  {Obj(NoKeys),
   Obj([k \in {"Content-Type"} |-> Str("text/plain")]),
   Obj([k \in {"Authorization", "X-Extra"} |->
          IF k = "X-Extra" THEN Str("1") ELSE Str("Basic zzz")])}

\* The arguments of the calls: every url with every bulk flag and every
\* header set, and on one url every maxRedirects
RequestArgs ==
  {Spread(Spread([url |-> url, method |-> Str("get")], bulk), headers) :
     url \in {Str("/path"), Str("https://other.com/x"), Str("")},
     bulk \in {NoKeys, [bulk |-> Bool(TRUE)], [bulk |-> Bool(FALSE)]},
     headers \in {NoKeys} \cup {[headers |-> x] : x \in RequestHeaders}}
  \cup
  {Spread([url |-> Str("/path"), method |-> Str("patch"),
           data |-> Obj([data |-> Null])], m) :
     m \in {[maxRedirects |-> x] : x \in {Num(5), Num(0), Undefined, Null}}}

Resolved == {Obj([status |-> Num(200), data |-> Obj([data |-> Null])]),
             Str("mock response")}

ErrorList == List(<<Obj([detail |-> Str("bad")])>>)

\* What axios.request rejects with: a response with an errors list, with an
\* empty one, with errors: null, with a body that is no object, with no
\* body, and no response at all
Rejected ==
  {Obj([response |-> Obj([status |-> Num(422),
                          data |-> Obj([errors |-> ErrorList])])]),
   Obj([response |-> Obj([status |-> Num(404),
                          data |-> Obj([errors |-> List(<<>>)])])]),
   Obj([response |-> Obj([status |-> Num(400),
                          data |-> Obj([errors |-> Null])])]),
   Obj([response |-> Obj([status |-> Num(500), data |-> Str("oops")])]),
   Obj([response |-> Obj([status |-> Num(302),
                          headers |-> Obj([location |-> Location])])]),
   Obj([message |-> Str("Network Error")])}

InitRequest ==
  /\ heap \in {constructed(<<>>, props) : props \in RequestApis}
  /\ pend = <<>>
  /\ log = <<>>
  /\ last = NoCall
  /\ pre = heap
  /\ prev = NoCall
  /\ nops = 0

NextRequest ==
  \/ \E a \in Apis(heap), args \in RequestArgs : ApiRequest(a, args)
  \/ \E response \in Resolved : ApiRequestResolve(response)
  \/ \E e \in Rejected : ApiRequestReject(e)

SpecRequest == InitRequest /\ [][NextRequest]_vars

----------------------------------------------------------------------------
(* C21: the class `new` instantiates *)

\* api.new({ type, ... }) was called with the type tag of a registered class.
C21_NewOfRegistered ==
  /\ last.op = "new"
  /\ \E parentCls \in Registered : parentCls.TYPE = last.args.value.v

C21_Parent == CHOOSE parentCls \in Registered : parentCls.TYPE = last.args.value.v

\* apis.js 101: the class instantiated is the registry's entry for the type
C21_Class == heap[heap[last.target].registry[last.args.value.v].oid]

\* No step replaces or removes the class a registry holds for a type.
C21_NeverReplaced ==
  \A a \in Apis(pre) : \A type \in DOMAIN pre[a].registry :
    /\ type \in DOMAIN heap[a].registry
    /\ heap[a].registry[type] = pre[a].registry[type]
    /\ heap[heap[a].registry[type].oid] = pre[pre[a].registry[type].oid]

\* C21: for a type registered on the connection's class, `new` (and
\* asResource, which calls it) instantiates the bound subtype of the
\* registered class, the class the accessors return, in every order of
\* accessor reads and `new` calls; a registry entry is never replaced.
C21_InstanceOfBound ==
  /\ C21_NeverReplaced
  /\ C21_NewOfRegistered =>
       /\ C21_Class.cls = "Class"
       /\ C21_Class.TYPE = last.args.value
       /\ C21_Class.API = last.target
       /\ C21_Class.extends = C21_Parent.name

\* What holds of `new`: the class is the registry's entry, with the type and
\* the connection, never replaced; it extends the registered class exactly
\* when an accessor put it there, and Resource when `new` did.
C21_InstanceOfEntry ==
  /\ C21_NeverReplaced
  /\ C21_NewOfRegistered =>
       /\ C21_Class.cls = "Class"
       /\ C21_Class.TYPE = last.args.value
       /\ C21_Class.API = last.target
       /\ C21_Class.extends \in {C21_Parent.name, "Resource"}
       /\ last.args.value.v \notin DOMAIN pre[last.target].registry
            => C21_Class.extends = "Resource"

\* api.new({ type: 'children', id: '1' }) on a connection whose accessors
\* were never read.
C21_NewBeforeRead ==
  /\ C21_NewOfRegistered
  /\ last.args.value.v \notin DOMAIN pre[last.target].registry
  /\ C21_Class.extends = "Resource"

----------------------------------------------------------------------------
(* C22: what request hands to the transport *)

C22_Requested == last.op = "request"
C22_Args == last.args.props
C22_Sent == log[Len(log)]

\* What this.auth() gave: the bearer header of a token, or what the
\* function of the connection returns
C22_Auth ==
  LET auth == pre[last.target].auth
  IN  IF auth.kind = "fn" THEN auth.result.f ELSE NoKeys

C22_Given(k) == IF k \in DOMAIN C22_Args THEN C22_Args[k] ELSE Undefined

C22_Headers == IF C22_Given("headers").kind = "obj" THEN C22_Given("headers").f ELSE NoKeys

C22_Url ==
  LET url == C22_Args["url"].v
  IN  IF Len(url) > 0 /\ SubSeq(url, 1, 1) = "/"
      THEN /\ C22_Sent["url"].v = pre[last.target].host.v \o url
           /\ Len(C22_Sent["url"].v) = Len(pre[last.target].host.v) + Len(url)
      ELSE C22_Sent["url"] = C22_Args["url"]

C22_HeadersSent ==
  LET sent == C22_Sent["headers"].f
  IN  /\ DOMAIN sent = DOMAIN C22_Auth \cup {"Content-Type"} \cup DOMAIN C22_Headers
      /\ \A k \in DOMAIN sent :
           sent[k] = IF k \in DOMAIN C22_Headers THEN C22_Headers[k]
                     ELSE IF k = "Content-Type"
                     THEN (IF C22_Given("bulk") = Bool(TRUE)
                           THEN Str("application/vnd.api+json;profile=\"bulk\"")
                           ELSE Str("application/vnd.api+json"))
                     ELSE C22_Auth[k]

C22_MaxRedirects ==
  C22_Sent["maxRedirects"] =
    IF C22_Given("maxRedirects") = Undefined THEN Num(0)
    ELSE C22_Given("maxRedirects")

C22_RestPassedOn ==
  /\ DOMAIN C22_Sent =
       (DOMAIN C22_Args \ {"bulk"}) \cup {"url", "headers", "maxRedirects"}
  /\ \A k \in DOMAIN C22_Sent \ {"url", "headers", "maxRedirects"} :
       C22_Sent[k] = C22_Args[k]

----------------------------------------------------------------------------
(* C23: how a failure of the transport leaves request *)

\* axios.request rejected; last.body is what it rejected with.
C23_Failed == last.op = "request" /\ last.resp = "fail"

C23_Response == IF "response" \in DOMAIN last.body.f THEN last.body.f["response"] ELSE Undefined

\* The failure came with a response whose body has an `errors` list.
C23_CarriesErrors ==
  /\ C23_Response.kind = "obj"
  /\ "data" \in DOMAIN C23_Response.f
  /\ C23_Response.f["data"].kind = "obj"
  /\ "errors" \in DOMAIN C23_Response.f["data"].f
  /\ C23_Response.f["data"].f["errors"].kind = "list"

C23_WitnessOpaque ==
  /\ C23_Failed
  /\ ~C23_CarriesErrors
  /\ last.ret = Obj([message |-> Str("Network Error")])

----------------------------------------------------------------------------
(* C24: follow *)

C24_Followed == last.op = "follow"

\* The request follow sent: a GET of the redirect target and nothing else,
\* handed to axios.get and not to the connection's request.
C24_PlainGet ==
  /\ Len(log) = last.nlog + 1
  /\ log[Len(log)].method = "get"
  /\ log[Len(log)].url = pre[Self].redirect
  /\ log[Len(log)].params = Undefined
  /\ log[Len(log)].data = Undefined
  /\ log[Len(log)].via = "axios.get"

\* C24: follow() fails with the no-redirect error and issues no request
\* unless the resource's redirect is set; when a 3xx reload has set
\* redirect, follow() issues exactly one plain GET to that target and
\* returns the raw response, leaving the resource unchanged.
C24_Follow ==
  C24_Followed =>
    /\ heap = pre
    /\ IF pre[Self].redirect \in {Null, Undefined, Str("")}
       THEN /\ last.out = "threw"
            /\ last.ret = Str("Cannot follow without redirect")
            /\ Len(log) = last.nlog
       ELSE /\ C24_PlainGet
            /\ last.out \in {"pending", "ok", "threw"}
            /\ last.step = "resume" =>
                 \E r \in FollowResponses :
                   /\ last.ret = r.v
                   /\ last.out = "ok" <=> r.kind = "ok"
    /\ prev.op = "reload" /\ prev.resp = "redirect" /\ prev.out = "ok" =>
         /\ pre[Self].redirect = Location
         /\ C24_PlainGet

\* reload was answered 302 with a Location, and follow returned what the
\* GET of the Location gave.
C24_Witness ==
  /\ C24_Followed
  /\ prev.op = "reload" /\ prev.resp = "redirect"
  /\ log[Len(log)].url = Location
  /\ last.out = "ok"
  /\ last.ret = Str("Redirect output")

\* follow on a resource that was never redirected
C24_WitnessNoRedirect ==
  /\ C24_Followed
  /\ last.out = "threw"
  /\ Len(log) = 0

----------------------------------------------------------------------------
(* C25: the fetches of a relationship that end without a request *)

\* resource.fetch(name, force) was called.
C25_Fetched == last.op = "fetch" /\ last.args.key # ""

C25_Name == last.args.key
C25_Relationship == pre[Self].relationships[C25_Name]

C25_Unknown == C25_Name \notin DOMAIN pre[Self].relationships

\* The relationship has no data (it is plural and not loaded), and no
\* `related` link either.
C25_NoRelatedLink ==
  /\ C25_Relationship.kind = "obj"
  /\ "data" \notin DOMAIN C25_Relationship.f
  /\ \/ "links" \notin DOMAIN C25_Relationship.f
     \/ "related" \notin DOMAIN C25_Relationship.f["links"].f

C25_NothingDone == Len(log) = last.nlog /\ heap = pre /\ last.step = "call"

\* C25: fetch(name) fails with the unknown-relationship error when name is
\* not a key of relationships, returns null when the relationship is null,
\* and fails with the missing-related-link error when the relationship is
\* plural, not yet loaded and has no `related` link; in all three cases no
\* request is issued and the resource is unchanged.
C25_FetchWithoutRequest ==
  C25_Fetched =>
    IF C25_Unknown
    THEN /\ last.out = "threw"
         /\ last.ret = Str("Resource does not have relationship '" \o C25_Name \o "'")
         /\ C25_NothingDone
    ELSE /\ C25_Relationship = Null =>
              /\ last.out = "ok" /\ last.ret = Null
              /\ C25_NothingDone
         /\ C25_Relationship # Null /\ C25_NoRelatedLink =>
              /\ last.out = "threw"
              /\ last.ret = Str("Cannot fetch " \o C25_Name \o ", no 'related' link")
              /\ C25_NothingDone

\* fetch('children') on a resource whose children have a `self` link only
C25_Witness ==
  /\ C25_Fetched
  /\ ~C25_Unknown
  /\ C25_Relationship = ChildrenSelfOnly
  /\ last.out = "threw"
  /\ Len(log) = 0

\* fetch('bogus'), and fetch('parent') on a resource whose parent is null
C25_WitnessUnknown == C25_Fetched /\ C25_Unknown /\ last.out = "threw"

C25_WitnessNull ==
  /\ C25_Fetched
  /\ ~C25_Unknown
  /\ C25_Relationship = Null
  /\ last.ret = Null

----------------------------------------------------------------------------
(* C26: the fetch of a plural relationship that has a `related` link *)

C26_Name == last.args.key
C26_Relationship == pre[Self].relationships[C26_Name]
C26_Link == C26_Relationship.f["links"].f["related"]

\* resource.fetch(name, force) was called on a relationship that has no
\* data and has a `related` link.
C26_Fetched ==
  /\ last.op = "fetch" /\ last.args.key # ""
  /\ C26_Name \in DOMAIN pre[Self].relationships
  /\ C26_Relationship.kind = "obj"
  /\ "data" \notin DOMAIN C26_Relationship.f
  /\ "links" \in DOMAIN C26_Relationship.f
  /\ "related" \in DOMAIN C26_Relationship.f["links"].f

C26_Held ==
  IF C26_Name \in DOMAIN pre[Self].related THEN pre[Self].related[C26_Name]
  ELSE Undefined

\* The Collection held for the relationship has had its rows loaded.
C26_Loaded ==
  /\ C26_Held.kind = "ref"
  /\ pre[C26_Held.oid].cls = "Collection"
  /\ pre[C26_Held.oid].data # Null

\* A new Collection on the link, without params, rows or page links, is the
\* only new object and related[name] the only field that changed.
C26_Fresh ==
  /\ last.ret = Ref(Len(pre) + 1)
  /\ Len(heap) = Len(pre) + 1
  /\ heap[Len(heap)] =
       [cls |-> "Collection", url |-> C26_Link, params |-> Null,
        data |-> Null, next |-> Null, previous |-> Null]
  /\ \A o \in 1..Len(pre) : o # Self => heap[o] = pre[o]
  /\ heap[Self] = [pre[Self] EXCEPT !.related =
                     [k \in DOMAIN @ \cup {C26_Name} |->
                        IF k = C26_Name THEN last.ret ELSE @[k]]]

\* Rows come into a Collection only with the answer to a fetch() called on
\* it, which sent one GET to the Collection's url; no other request of that
\* Collection was answered.
C26_RowsByFetchOnly ==
  \A c \in Collections(pre) :
    pre[c].data = Null /\ heap[c].data # Null =>
      /\ last.op = "fetch" /\ last.target = c
      /\ last.step = "resume" /\ last.resp = "ok"
      /\ \E i \in 1..Len(log) :
           /\ "by" \in DOMAIN log[i]
           /\ log[i].by = c
           /\ log[i].answer = "ok"
           /\ log[i].method = "get"
           /\ log[i].url = heap[c].url
           /\ log[i].params = Null
           /\ \A j \in 1..Len(log) :
                j # i /\ "by" \in DOMAIN log[j] /\ log[j].by = c =>
                  log[j].answer = "fail"

\* C26: fetch on a plural relationship that has only a `related` link issues
\* no request: it stores a fresh, unfetched Collection on that link in
\* related[name] and returns it (the Collection already held, when its rows
\* have been loaded and force is not set); the rows are loaded only by a
\* later fetch() on the Collection, which issues one GET to the link.
C26_PluralByLink ==
  /\ C26_RowsByFetchOnly
  /\ C26_Fetched =>
       /\ last.out = "ok" /\ last.step = "call"
       /\ Len(log) = last.nlog
       /\ C26_Name \in DOMAIN heap[Self].related
       /\ heap[Self].related[C26_Name] = last.ret
       /\ heap[last.ret.oid].cls = "Collection"
       /\ heap[last.ret.oid].url = C26_Link
       /\ IF C26_Loaded /\ ~last.args.force
          THEN last.ret = C26_Held /\ heap = pre
          ELSE C26_Fresh

\* parent.fetch('children') gave a Collection without a request, and
\* children.fetch() then sent the one request, a GET of the link, and loaded
\* a row.
C26_Witness ==
  /\ last.op = "fetch" /\ last.step = "resume" /\ last.resp = "ok"
  /\ "children" \in DOMAIN heap[Self].related
  /\ heap[Self].related["children"] = Ref(last.target)
  /\ Len(log) = 1
  /\ log[1].url = Str("/children/1/children")
  /\ pre[last.target].data = Null
  /\ heap[last.target].data.items # <<>>

\* fetch('children') once more, after the rows were loaded
C26_WitnessCached ==
  /\ C26_Fetched
  /\ C26_Loaded
  /\ ~last.args.force
  /\ last.ret = C26_Held

----------------------------------------------------------------------------
(* C27: set, save(['name']), reload against the echoing server *)

\* save(['name']) was called right after set('name', v).
C27_SavedAfterSet ==
  /\ last.op = "save" /\ last.args.fields = <<"name">>
  /\ prev.op = "set" /\ prev.out = "ok"

\* The PATCH carried the identity and the one attribute, with the value set.
C27_SentOnlyName ==
  /\ Len(log) = last.nlog + 1
  /\ log[Len(log)].method = "patch"
  /\ DOMAIN SentData.f = {"type", "id", "attributes"}
  /\ SentData.f["attributes"] = Obj([name |-> prev.args.value])

\* reload() was called right after a save(['name']) that has ended, and has
\* been answered.
C27_Reloaded ==
  /\ last.op = "reload" /\ last.step = "resume"
  /\ prev.op = "save" /\ prev.args.fields = <<"name">>
  /\ prev.step = "resume"

C27_ReadsWhatWasSaved ==
  /\ last.out = "ok"
  /\ get(heap, Self, "name") = SentDataOf(Len(log) - 1).f["attributes"].f["name"]

\* C27: with a server that echoes what it is sent, set('name', v), then
\* save(['name']), then reload() yields a resource whose get('name') is v;
\* the save sends only the field name.
C27_RoundTrip ==
  /\ C27_SavedAfterSet =>
       /\ C27_SentOnlyName
       /\ last.step = "resume" => last.out = "ok"
  /\ C27_Reloaded => prev.out = "ok" /\ C27_ReadsWhatWasSaved

\* What holds: the save sends only the field; it ends without error when
\* the resource holds no related object, and throws once the request is
\* answered when it holds one; a reload after either reads the value set.
C27_RoundTripUnlessRelated ==
  /\ C27_SavedAfterSet =>
       /\ C27_SentOnlyName
       /\ last.step = "resume" =>
            (last.out = "ok" <=> pre[Self].related = NoKeys)
  /\ C27_Reloaded => C27_ReadsWhatWasSaved

\* The save of a resource that has a parent throws on the echoed document.
C27_SaveThrows ==
  /\ C27_SavedAfterSet
  /\ last.step = "resume"
  /\ last.out = "threw"
  /\ "parent" \in DOMAIN pre[Self].related

\* The round trip of a resource without related objects
C27_RoundTripDone ==
  /\ C27_Reloaded
  /\ prev.out = "ok"
  /\ get(heap, Self, "name") = Str("y")

----------------------------------------------------------------------------
(* C28: the bulk operations *)

C28_Bulk == last.op \in {"bulkCreate", "bulkDelete", "bulkUpdate"}

C28_Items == last.args.value.items

\* The payload cannot be built: an item of bulkCreate or bulkUpdate is no
\* resource and no plain object, or a field of bulkUpdate is no attribute
\* and no relationship of some item.
C28_Unbuildable ==
  \/ /\ last.op \in {"bulkCreate", "bulkUpdate"}
     /\ \E i \in 1..Len(C28_Items) : C28_Items[i].kind = "str"
  \/ /\ last.op = "bulkUpdate"
     /\ \E i \in 1..Len(C28_Items) :
          \/ C28_Items[i].kind = "obj" /\ "parent" \in Range(last.args.fields)
          \/ /\ C28_Items[i].kind = "ref"
             /\ \E f \in Range(last.args.fields) :
                  /\ f \notin DOMAIN pre[C28_Items[i].oid].attributes
                  /\ f \notin DOMAIN pre[C28_Items[i].oid].relationships

\* The one request: the method of the operation, the url of the type, the
\* bulk flag, and a list with one payload item for every item passed
C28_OneBulkRequest ==
  /\ Len(log) = last.nlog + 1
  /\ log[Len(log)].bulk = TRUE
  /\ log[Len(log)].url = Str("/children")
  /\ log[Len(log)].method =
       (CASE last.op = "bulkCreate" -> "post"
          [] last.op = "bulkDelete" -> "delete"
          [] OTHER -> "patch")
  /\ SentData.kind = "list"
  /\ Len(SentData.items) = Len(C28_Items)
  /\ \A i \in 1..Len(C28_Items) :
       /\ SentData.items[i].kind = "obj"
       /\ SentData.items[i].f["type"] = Str("children")

\* What the call gave back when the request had succeeded
C28_Returned ==
  IF last.op = "bulkDelete"
  THEN last.ret = Num(Len(C28_Items)) /\ Collections(heap) = Collections(pre)
  ELSE /\ last.ret = Ref(Len(heap))
       /\ heap[Len(heap)] =
            [cls |-> "Collection", url |-> Str(""), params |-> Null,
             data |-> last.body.f["data"], next |-> Null, previous |-> Null]
       /\ Collections(heap) = Collections(pre) \cup {Len(heap)}

\* C28: bulkCreate, bulkUpdate and bulkDelete each issue exactly one request
\* whose data is an array and whose bulk flag is set (none when the payload
\* cannot be built: the call then throws); bulkDelete returns the number of
\* items, the list variants a Collection built from the response array with
\* no further request; when the request fails the whole call fails and
\* nothing is returned.
C28_BulkOperations ==
  C28_Bulk =>
    IF C28_Unbuildable
    THEN last.out = "threw" /\ Len(log) = last.nlog /\ last.ret = Undefined
    ELSE /\ C28_OneBulkRequest
         /\ last.step = "call" => last.out = "pending"
         /\ last.step = "resume" /\ last.resp = "ok" =>
              last.out = "ok" /\ C28_Returned
         /\ last.step = "resume" /\ last.resp = "fail" =>
              /\ last.out = "failed"
              /\ last.ret = Undefined
              /\ Collections(heap) = Collections(pre)

\* bulkCreate of a resource and a plain object, answered with two rows
C28_Witness ==
  /\ last.op = "bulkCreate"
  /\ Len(C28_Items) = 2
  /\ C28_Items[1].kind = "ref" /\ C28_Items[2].kind = "obj"
  /\ last.step = "resume" /\ last.resp = "ok"
  /\ Len(log) = 1
  /\ Len(SentData.items) = 2
  /\ Len(heap[last.ret.oid].data.items) = 2

\* bulkDelete(['4', child]) answered: 2; and a bulkUpdate that failed
C28_WitnessDelete ==
  /\ last.op = "bulkDelete"
  /\ last.ret = Num(2)
  /\ SentData.items[1] = Ident("children", "4")

C28_WitnessFailed ==
  /\ last.op = "bulkUpdate"
  /\ last.resp = "fail"
  /\ Len(C28_Items) = 2


----------------------------------------------------------------------------
(* C29: a singular relationship that is normalized again *)

\* The related object before and after the operation
C29_Held == relatedOf(pre, Self, "parent")
C29_Now == relatedOf(heap, Self, "parent")

C29_BySet ==
  /\ last.op = "set"
  /\ last.args.key = "parent"
  /\ "parent" \in DOMAIN pre[Self].relationships

C29_ByReload ==
  /\ last.op = "reload"
  /\ last.step = "resume"
  /\ last.resp = "ok"
  /\ last.out = "ok"

C29_BySave ==
  /\ last.op = "save"
  /\ last.step = "resume"
  /\ last.resp = "ok"
  /\ last.out = "ok"
  /\ Truthy(C29_Held)

\* The value the relationship is normalized from
C29_Value ==
  IF C29_BySet THEN last.args.value
  ELSE Get(Get(Get(last.body, "data"), "relationships"), "parent")

C29_Data == IF hasData(C29_Value) THEN C29_Value.f["data"] ELSE C29_Value

\* The side-loaded documents of the response that match the identifier
C29_Included ==
  IF C29_ByReload /\ "included" \in DOMAIN last.body.f
  THEN {x \in {last.body.f["included"].items[i] :
                 i \in 1..Len(last.body.f["included"].items)} :
          /\ Get(x, "type") = Get(C29_Data, "type")
          /\ Get(x, "id") = Get(C29_Data, "id")}
  ELSE {}

\* What the incoming resource is, or is built from
C29_Source ==
  IF C29_Included # {} THEN CHOOSE x \in C29_Included : TRUE ELSE C29_Data

C29_IncomingId ==
  IF C29_Source.kind = "ref" THEN pre[C29_Source.oid].id
  ELSE Get(C29_Source, "id")

C29_IncomingRich ==
  IF C29_Source.kind = "ref"
  THEN \/ Size(pre[C29_Source.oid].attributes) > 0
       \/ Size(pre[C29_Source.oid].relationships) > 0
  ELSE \/ isObject(Get(C29_Source, "attributes")) /\
          Size(Get(C29_Source, "attributes").f) > 0
       \/ isObject(Get(C29_Source, "relationships")) /\
          Size(Get(C29_Source, "relationships").f) > 0

C29_Differs ==
  \/ ~Truthy(C29_Held)
  \/ IdOf(pre, C29_Held) # C29_IncomingId

\* The held object is still the related one, as it was
C29_Kept ==
  /\ C29_Now = C29_Held
  /\ C29_Held.kind = "ref"
  /\ heap[C29_Held.oid] = pre[C29_Held.oid]

\* The incoming resource is the related one: the Resource that was handed
\* in, or one built during the operation from the incoming document
C29_Replaced ==
  IF C29_Source.kind = "ref" THEN C29_Now = C29_Source
  ELSE /\ C29_Now.kind = "ref"
       /\ C29_Now.oid > Len(pre)
       /\ heap[C29_Now.oid].cls = "Resource"
       /\ heap[C29_Now.oid].id = C29_IncomingId
       /\ (Size(heap[C29_Now.oid].attributes) > 0 \/
           Size(heap[C29_Now.oid].relationships) > 0) = C29_IncomingRich

C29_BySetOrReload ==
  (C29_BySet \/ C29_ByReload) =>
    IF C29_Value = Null THEN C29_Now = Null
    ELSE IF C29_Differs \/ C29_IncomingRich THEN C29_Replaced
         ELSE C29_Kept

\* After a save the held object is handed in again when the server reports
\* its id, and a resource built from the response otherwise
C29_AfterSave ==
  C29_BySave =>
    IF Get(Get(C29_Value, "data"), "id") = IdOf(pre, C29_Held)
    THEN C29_Kept
    ELSE C29_Now.kind = "ref" /\ C29_Now.oid > Len(pre)

\* C29: when a singular relationship is normalized again, by set or by the
\* re-seed that ends reload or save, the related object is replaced by the
\* incoming resource if and only if nothing was related, or the ids differ,
\* or the incoming resource has attributes or relationships; a null value
\* leaves null; otherwise the held object stays, unchanged.
C29_SingularReplacement == C29_BySetOrReload /\ C29_AfterSave

\* A parent whose attributes were fetched is normalized again from a bare
\* identifier with its id, and is kept with them
C29_Witness ==
  /\ C29_BySet \/ C29_ByReload
  /\ C29_Value # Null
  /\ ~C29_Differs
  /\ ~C29_IncomingRich
  /\ C29_Kept
  /\ Size(heap[C29_Held.oid].attributes) > 0

\* A held parent gives way to one with another id and no attributes
C29_WitnessOtherId ==
  /\ C29_BySet \/ C29_ByReload
  /\ C29_Value # Null
  /\ Truthy(C29_Held)
  /\ IdOf(pre, C29_Held) # C29_IncomingId
  /\ ~C29_IncomingRich
  /\ C29_Now # C29_Held

\* A held parent gives way to one with its id that has attributes
C29_WitnessRich ==
  /\ C29_BySet \/ C29_ByReload
  /\ C29_Value # Null
  /\ ~C29_Differs
  /\ C29_IncomingRich
  /\ C29_Now # C29_Held

\* From null to a parent, and from a parent to null
C29_WitnessFromNull ==
  /\ C29_ByReload
  /\ C29_Held = Null
  /\ C29_Value # Null
  /\ isResource(heap, C29_Now)

C29_WitnessToNull ==
  /\ C29_BySet \/ C29_ByReload
  /\ isResource(pre, C29_Held)
  /\ C29_Value = Null
  /\ C29_Now = Null

C29_WitnessSaveKept ==
  /\ C29_BySave
  /\ C29_Kept
  /\ Size(heap[C29_Held.oid].attributes) > 0

C29_WitnessSaveReplaced == C29_BySave /\ C29_Now # C29_Held


----------------------------------------------------------------------------
(* C30: a plural relationship with a data list that is normalized again *)

\* The related Collection before and after the operation
C30_Held == relatedOf(pre, Self, "children")
C30_Now == relatedOf(heap, Self, "children")

C30_BySet ==
  /\ last.op = "set"
  /\ last.args.key = "children"
  /\ "children" \in DOMAIN pre[Self].relationships

C30_ByReload ==
  /\ last.op = "reload"
  /\ last.step = "resume"
  /\ last.resp = "ok"
  /\ last.out = "ok"

\* The value the relationship is normalized from, and its data list
C30_Value ==
  IF C30_BySet THEN last.args.value
  ELSE Get(Get(Get(last.body, "data"), "relationships"), "children")

C30_List ==
  IF isList(C30_Value) THEN C30_Value.items
  ELSE IF isList(Get(C30_Value, "data")) THEN Get(C30_Value, "data").items
       ELSE <<>>

C30_HasList == isList(C30_Value) \/ isList(Get(C30_Value, "data"))

C30_IncludedItems ==
  IF C30_ByReload /\ "included" \in DOMAIN last.body.f
  THEN {last.body.f["included"].items[i] :
          i \in 1..Len(last.body.f["included"].items)}
  ELSE {}

\* What each incoming resource is built from: the side-loaded document of
\* its type and id, or the item of the list
C30_Sources ==
  [i \in 1..Len(C30_List) |->
     IF \E x \in C30_IncludedItems :
           /\ Get(x, "type") = Get(C30_List[i], "type")
           /\ Get(x, "id") = Get(C30_List[i], "id")
     THEN CHOOSE x \in C30_IncludedItems :
            /\ Get(x, "type") = Get(C30_List[i], "type")
            /\ Get(x, "id") = Get(C30_List[i], "id")
     ELSE C30_List[i]]

C30_Rich ==
  [i \in 1..Len(C30_List) |->
     \/ isObject(Get(C30_Sources[i], "attributes")) /\
        Size(Get(C30_Sources[i], "attributes").f) > 0
     \/ isObject(Get(C30_Sources[i], "relationships")) /\
        Size(Get(C30_Sources[i], "relationships").f) > 0]

C30_Fetched == isCollection(pre, C30_Held) /\ pre[C30_Held.oid].data # Null

\* Absent or unfetched, another length, another id somewhere, or an item
\* with attributes or relationships
C30_Differs ==
  \/ ~C30_Fetched
  \/ Len(pre[C30_Held.oid].data.items) # Len(C30_List)
  \/ \E i \in 1..Len(C30_List) :
        \/ IdOf(pre, pre[C30_Held.oid].data.items[i]) # Get(C30_List[i], "id")
        \/ C30_Rich[i]

\* The held Collection is still the related one, and it and its rows are as
\* they were
C30_Kept ==
  /\ C30_Now = C30_Held
  /\ heap[C30_Held.oid] = pre[C30_Held.oid]
  /\ \A i \in 1..Len(pre[C30_Held.oid].data.items) :
        heap[pre[C30_Held.oid].data.items[i].oid] =
          pre[pre[C30_Held.oid].data.items[i].oid]

\* The related Collection was built during the operation, with one row per
\* item of the list, in its order, and the `related` link as its url
C30_Replaced ==
  /\ C30_Now.kind = "ref"
  /\ C30_Now.oid > Len(pre)
  /\ heap[C30_Now.oid].cls = "Collection"
  /\ isList(heap[C30_Now.oid].data)
  /\ Len(heap[C30_Now.oid].data.items) = Len(C30_List)
  /\ \A i \in 1..Len(C30_List) :
        /\ i <= Len(heap[C30_Now.oid].data.items)
        /\ isResource(heap, heap[C30_Now.oid].data.items[i])
        /\ IdOf(heap, heap[C30_Now.oid].data.items[i]) =
             Get(C30_List[i], "id")
        /\ (Size(heap[heap[C30_Now.oid].data.items[i].oid].attributes) > 0 \/
            Size(heap[heap[C30_Now.oid].data.items[i].oid].relationships) > 0)
             = C30_Rich[i]
  /\ heap[C30_Now.oid].url =
       IF hasLinks(C30_Value) /\ "related" \in DOMAIN C30_Value.f["links"].f
       THEN C30_Value.f["links"].f["related"] ELSE Null

\* No request but the GET of reload itself
C30_NoRequest ==
  Len(log) = last.nlog + (IF C30_ByReload THEN 1 ELSE 0)

\* C30: when a plural relationship is normalized again from a data list,
\* by set or by the re-seed that ends reload, the related Collection is
\* replaced if and only if none is held, or the held one is unfetched, or
\* the list has another length than its rows, or another id at some
\* position, or an item with attributes or relationships; otherwise the held
\* Collection and its rows stay as they were.  The replacement holds the
\* resolved resources and the `related` link, and no request is sent for it.
C30_PluralReplacement ==
  ((C30_BySet \/ C30_ByReload) /\ C30_HasList) =>
    /\ IF C30_Differs THEN C30_Replaced ELSE C30_Kept
    /\ C30_NoRequest

\* Fetched rows are normalized again from the bare identifiers of the same
\* ids, and are kept with their attributes
C30_Witness ==
  /\ C30_BySet \/ C30_ByReload
  /\ C30_HasList
  /\ ~C30_Differs
  /\ C30_Kept
  /\ Len(C30_List) > 0
  /\ Size(heap[pre[C30_Held.oid].data.items[1].oid].attributes) > 0

C30_WitnessAbsent ==
  /\ C30_ByReload
  /\ C30_HasList
  /\ C30_Held = Undefined
  /\ isCollection(heap, C30_Now)

C30_WitnessUnfetched ==
  /\ C30_ByReload
  /\ C30_HasList
  /\ isCollection(pre, C30_Held)
  /\ pre[C30_Held.oid].data = Null
  /\ C30_Now # C30_Held

C30_WitnessLength ==
  /\ C30_BySet \/ C30_ByReload
  /\ C30_HasList
  /\ C30_Fetched
  /\ Len(pre[C30_Held.oid].data.items) # Len(C30_List)
  /\ \A i \in 1..Len(C30_List) : ~C30_Rich[i]
  /\ C30_Now # C30_Held

C30_WitnessOtherId ==
  /\ C30_BySet \/ C30_ByReload
  /\ C30_HasList
  /\ C30_Fetched
  /\ Len(pre[C30_Held.oid].data.items) = Len(C30_List)
  /\ \A i \in 1..Len(C30_List) : ~C30_Rich[i]
  /\ C30_Differs
  /\ C30_Now # C30_Held

C30_WitnessRich ==
  /\ C30_BySet \/ C30_ByReload
  /\ C30_HasList
  /\ C30_Fetched
  /\ Len(pre[C30_Held.oid].data.items) = Len(C30_List)
  /\ \A i \in 1..Len(C30_List) :
        IdOf(pre, pre[C30_Held.oid].data.items[i]) = Get(C30_List[i], "id")
  /\ \E i \in 1..Len(C30_List) : C30_Rich[i]
  /\ C30_Now # C30_Held

C30_WitnessEmpty ==
  /\ C30_ByReload
  /\ C30_HasList
  /\ Len(C30_List) = 0
  /\ ~C30_Differs
  /\ C30_Kept


----------------------------------------------------------------------------
(* C31: set *)

C31_Key == last.args.key
C31_Given == last.args.value

\* set was called on a key of `relationships` with a Resource, an
\* identifier, an envelope of an identifier, or null
C31_OnRelationship ==
  /\ last.op = "set"
  /\ C31_Key \in DOMAIN pre[Self].relationships
  /\ \/ C31_Given = Null
     \/ isResource(pre, C31_Given)
     \/ isResourceIdentifier(C31_Given)
     \/ hasData(C31_Given) /\ isResourceIdentifier(C31_Given.f["data"])

C31_OnAttribute ==
  /\ last.op = "set"
  /\ C31_Key \notin DOMAIN pre[Self].relationships

\* The type and the id of the value
C31_Identity ==
  IF C31_Given.kind = "ref"
  THEN [type |-> pre[C31_Given.oid].TYPE, id |-> pre[C31_Given.oid].id]
  ELSE IF hasData(C31_Given)
       THEN [type |-> Get(C31_Given.f["data"], "type"),
             id |-> Get(C31_Given.f["data"], "id")]
       ELSE [type |-> Get(C31_Given, "type"), id |-> Get(C31_Given, "id")]

C31_Related == relatedOf(heap, Self, C31_Key)

C31_BothNull ==
  /\ C31_Key \in DOMAIN heap[Self].relationships
  /\ heap[Self].relationships[C31_Key] = Null
  /\ C31_Related = Null

\* related[key] is a resource with the id of the value, and
\* relationships[key] is { data: { type, id } } of that resource
C31_InStep ==
  /\ isResource(heap, C31_Related)
  /\ heap[C31_Related.oid].id = C31_Identity.id
  /\ heap[Self].relationships[C31_Key] =
       Obj([data |-> Obj([type |-> heap[C31_Related.oid].TYPE,
                          id |-> heap[C31_Related.oid].id])])

C31_SameType ==
  isResource(heap, C31_Related) /\
  heap[C31_Related.oid].TYPE = C31_Identity.type

C31_Verbatim ==
  /\ heap[Self].attributes = Put(pre[Self].attributes, C31_Key, C31_Given)
  /\ heap[Self].relationships = pre[Self].relationships
  /\ heap[Self].related = pre[Self].related

\* C31: after set on a key of `relationships` with a Resource, an
\* identifier, an envelope or null, both maps hold null for a null value, and
\* otherwise related[key] is a resource of the value's type and id and
\* relationships[key] is its { data: { type, id } }; set on any other key puts
\* the value in `attributes` as it is.
C31_Set ==
  /\ C31_OnRelationship =>
       IF C31_Given = Null THEN C31_BothNull
       ELSE C31_InStep /\ C31_SameType
  /\ C31_OnAttribute => C31_Verbatim

\* The held resource has the id of the value: it is the one kept
C31_HeldSameId ==
  /\ isResource(pre, relatedOf(pre, Self, C31_Key))
  /\ pre[relatedOf(pre, Self, C31_Key).oid].id = C31_Identity.id

\* What set keeps: null in both maps, after which the call throws; the id of
\* the value and the serialized form of the related resource; the type of
\* the value too unless a resource with that id was held
C31_SetById ==
  /\ C31_OnRelationship =>
       IF C31_Given = Null THEN C31_BothNull /\ last.out = "threw"
       ELSE /\ C31_InStep
            /\ last.out = "ok"
            /\ C31_SameType \/ C31_HeldSameId
  /\ C31_OnAttribute => C31_Verbatim /\ last.out = "ok"

\* set with an identifier of another type than the held resource, same id
C31_OtherTypeKept ==
  /\ C31_OnRelationship
  /\ C31_Given # Null
  /\ C31_HeldSameId
  /\ ~C31_SameType

C31_NullThrows == C31_OnRelationship /\ C31_Given = Null /\ last.out = "threw"


----------------------------------------------------------------------------
(* C32: which flattened fields are relationships *)

C32_Built == last.op = "new" /\ last.args.form = "flattened"
C32_Name == last.args.name
C32_Given == last.args.value

C32_Items ==
  IF isList(C32_Given) THEN C32_Given.items
  ELSE IF isList(Get(C32_Given, "data")) THEN Get(C32_Given, "data").items
       ELSE <<>>

C32_NonEmptyList ==
  /\ Len(C32_Items) > 0
  /\ \A i \in 1..Len(C32_Items) :
        isResourceIdentifier(C32_Items[i]) \/ isResource(pre, C32_Items[i])

\* The shapes the claim lists
C32_Listed ==
  \/ isResource(pre, C32_Given)
  \/ isResourceIdentifier(C32_Given)
  \/ hasLinks(C32_Given)
  \/ hasData(C32_Given) /\
       (\/ isResourceIdentifier(C32_Given.f["data"])
        \/ isResource(pre, C32_Given.f["data"])
        \/ isList(C32_Given.f["data"]) /\ C32_NonEmptyList)
  \/ isList(C32_Given) /\ C32_NonEmptyList

C32_AsRelationship ==
  /\ last.out = "ok"
  /\ C32_Name \in DOMAIN heap[last.target].relationships
  /\ C32_Name \notin DOMAIN heap[last.target].attributes

C32_AsAttribute ==
  /\ last.out = "ok"
  /\ C32_Name \notin DOMAIN heap[last.target].relationships
  /\ C32_Name \in DOMAIN heap[last.target].attributes
  /\ heap[last.target].attributes[C32_Name] = C32_Given

\* C32: a flattened field is stored as a relationship exactly when its value
\* is a Resource, an identifier, an object with links, an object whose data
\* is an identifier, a Resource or a non-empty list of them, or a non-empty
\* list of them; any other value is stored as an attribute, and the
\* construction succeeds.
C32_Classification ==
  C32_Built => IF C32_Listed THEN C32_AsRelationship ELSE C32_AsAttribute


\* An object whose `data` has no element to test: null, a number, a
\* boolean, an empty string, an empty list or an empty object
C32_NothingToTest ==
  /\ hasData(C32_Given)
  /\ \/ C32_Given.f["data"].kind \in {"null", "undefined", "num", "bool"}
     \/ C32_Given.f["data"] \in {Str(""), List(<<>>), Obj(NoKeys)}

\* What the classification does: the listed shapes are relationships; so is
\* an object whose `data` has nothing to test, and the construction throws
\* when that `data` is null; the rest are attributes
C32_ClassifiedByEvery ==
  C32_Built =>
    IF C32_Listed THEN C32_AsRelationship
    ELSE IF C32_NothingToTest
         THEN IF C32_Given.f["data"] = Null THEN last.out = "threw"
              ELSE C32_AsRelationship
         ELSE C32_AsAttribute

\* { data: [] } is stored as a relationship, with an empty Collection
C32_EmptyDataList ==
  /\ C32_Built
  /\ C32_Given = Obj([data |-> List(<<>>)])
  /\ C32_AsRelationship
  /\ isCollection(heap, relatedOf(heap, last.target, C32_Name))

\* { data: null } makes the constructor throw
C32_NullDataThrows ==
  /\ C32_Built
  /\ C32_Given = Obj([data |-> Null])
  /\ last.out = "threw"

\* An empty list and an object whose data is a string are attributes
C32_PlainAttribute ==
  /\ C32_Built
  /\ C32_Given \in {List(<<>>), Obj([data |-> Str("s")])}
  /\ C32_AsAttribute


----------------------------------------------------------------------------
(* C33: change *)

C33_Field == last.args.key

\* The value change was called with
C33_Given ==
  IF "given" \in DOMAIN last.args.props THEN last.args.props["given"]
  ELSE Undefined

C33_Declared ==
  /\ last.op = "change"
  /\ C33_Field \in DOMAIN pre[Self].relationships

C33_Undeclared ==
  /\ last.op = "change"
  /\ C33_Field \notin DOMAIN pre[Self].relationships

\* The identifier of the value: null for null
C33_Identifier ==
  IF C33_Given = Null THEN Null
  ELSE IF C33_Given.kind = "ref"
       THEN Obj([type |-> pre[C33_Given.oid].TYPE,
                 id |-> pre[C33_Given.oid].id])
       ELSE Obj([type |-> Get(C33_Given, "type"), id |-> Get(C33_Given, "id")])

C33_Links ==
  IF C33_Declared THEN Get(pre[Self].relationships[C33_Field], "links")
  ELSE Undefined

C33_Url ==
  IF Get(C33_Links, "self") # Undefined THEN Get(C33_Links, "self")
  ELSE Str("/children/" \o KeyStr(pre[Self].id) \o "/relationships/" \o
           C33_Field)

\* One request, the PATCH of the relationship
C33_OnePatch ==
  /\ Len(log) = last.nlog + 1
  /\ log[Len(log)].method = "patch"
  /\ log[Len(log)].url = C33_Url
  /\ log[Len(log)].data = Obj([data |-> C33_Identifier])

C33_Held == relatedOf(pre, Self, C33_Field)
C33_Now == relatedOf(heap, Self, C33_Field)

C33_HeldId == IF Truthy(C33_Held) THEN IdOf(pre, C33_Held) ELSE Undefined
C33_NewId == IF C33_Given = Null THEN Undefined ELSE Get(C33_Identifier, "id")

\* The local state after the request has succeeded
C33_Applied ==
  /\ isObject(heap[Self].relationships[C33_Field])
  /\ Get(heap[Self].relationships[C33_Field], "data") = C33_Identifier
  /\ Get(heap[Self].relationships[C33_Field], "links") = C33_Links
  /\ IF C33_HeldId = C33_NewId
     THEN C33_Now = C33_Held
     ELSE IF C33_Given = Null THEN C33_Now = Null
          ELSE /\ isResource(heap, C33_Now)
               /\ asResourceIdentifier(heap, C33_Now.oid) = C33_Identifier

C33_Unchanged ==
  /\ heap[Self].relationships = pre[Self].relationships
  /\ heap[Self].related = pre[Self].related

\* C33: change on a declared relationship sends one PATCH, to the self link
\* of the relationship or to /<type>/<id>/relationships/<field>, with the
\* identifier of the value or null; once it has succeeded
\* relationships[field].data is that identifier and related[field] is the
\* new resource, or null, when its id differs from the held one, and the held
\* object otherwise; a failed request leaves both maps as they were; on a
\* field that is no relationship the call throws and sends nothing.
C33_Change ==
  /\ C33_Declared =>
       /\ C33_OnePatch
       /\ last.out \in {"pending", "ok", "failed"}
       /\ last.out = "pending" => C33_Unchanged
       /\ last.out = "ok" => C33_Applied
       /\ last.out = "failed" => C33_Unchanged
  /\ C33_Undeclared =>
       /\ last.out = "threw"
       /\ Len(log) = last.nlog
       /\ C33_Unchanged

\* A parent with another id replaced the held one
C33_Witness ==
  /\ C33_Declared
  /\ last.out = "ok"
  /\ isResource(pre, C33_Held)
  /\ C33_Given # Null
  /\ C33_HeldId # C33_NewId
  /\ C33_Now # C33_Held

C33_WitnessKept ==
  /\ C33_Declared
  /\ last.out = "ok"
  /\ isResource(pre, C33_Held)
  /\ C33_HeldId = C33_NewId
  /\ C33_Now = C33_Held

C33_WitnessCleared ==
  /\ C33_Declared
  /\ last.out = "ok"
  /\ isResource(pre, C33_Held)
  /\ C33_Given = Null
  /\ C33_Now = Null

C33_WitnessSelfLink ==
  /\ C33_Declared
  /\ Get(C33_Links, "self") # Undefined
  /\ last.out = "ok"

C33_WitnessFailed == C33_Declared /\ last.out = "failed"

C33_WitnessUndeclared == C33_Undeclared /\ last.out = "threw"


----------------------------------------------------------------------------
(* C34: the relationship after change(field, null) *)

\* change(field, null) has succeeded
C34_Cleared ==
  /\ last.op = "change"
  /\ last.out = "ok"
  /\ "given" \in DOMAIN last.args.props
  /\ last.args.props["given"] = Null

\* fetch(field) was called next
C34_FetchedNext ==
  /\ last.op = "fetch"
  /\ prev.op = "change"
  /\ prev.out = "ok"
  /\ "given" \in DOMAIN prev.args.props
  /\ prev.args.props["given"] = Null
  /\ last.args.key = prev.args.key

C34_RelatedLink ==
  Get(Get(pre[Self].relationships[last.args.key], "links"), "related")

\* C34: after a successful change(field, null), get(field) is null, and
\* fetch(field) returns null, sends nothing and throws nothing.
C34_NullAfterClear ==
  /\ C34_Cleared => get(heap, Self, last.args.key) = Null
  /\ C34_FetchedNext =>
       /\ last.out = "ok"
       /\ last.ret = Null
       /\ Len(log) = last.nlog

\* What happens: get is null; fetch sends nothing, and throws when the
\* relationship has no `related` link, or returns a new Collection of that
\* link and stores it as the related object
C34_FetchAfterClear ==
  /\ C34_Cleared =>
       /\ get(heap, Self, last.args.key) = Null
       /\ heap[Self].relationships[last.args.key] # Null
       /\ Get(heap[Self].relationships[last.args.key], "data") = Null
  /\ C34_FetchedNext =>
       /\ Len(log) = last.nlog
       /\ IF Truthy(C34_RelatedLink)
          THEN /\ last.out = "ok"
               /\ isCollection(heap, last.ret)
               /\ heap[last.ret.oid].url = C34_RelatedLink
               /\ heap[last.ret.oid].data = Null
               /\ relatedOf(heap, Self, last.args.key) = last.ret
          ELSE /\ last.out = "threw"
               /\ last.ret = Str("Cannot fetch " \o last.args.key \o
                                 ", no 'related' link")

C34_FetchThrows == C34_FetchedNext /\ last.out = "threw"

C34_FetchGivesCollection == C34_FetchedNext /\ isCollection(heap, last.ret)


----------------------------------------------------------------------------
(* C35: one request for every invocation *)

C35_Ops ==
  {"reload", "save", "create", "delete", "change", "add", "reset", "remove",
   "bulkCreate", "bulkDelete", "bulkUpdate"}

C35_Invoked == last.op \in C35_Ops

\* fetch() on a Collection that had no data, at its call
C35_CollectionFetch ==
  /\ last.op = "fetch"
  /\ last.step = "call"
  /\ last.target \in Collections(heap)
  /\ pre[last.target].data = Null

\* A fetch() of a Collection ended with the failure of its request
C35_CollectionFailed ==
  /\ last.op = "fetch"
  /\ last.step = "resume"
  /\ last.target \in Collections(heap)
  /\ last.resp = "fail"

C35_Edited == last.op \in {"add", "reset", "remove"} /\ last.out # "threw"

\* The identifier of a value of add, reset or remove
C35_Identifiers ==
  [i \in 1..Len(last.args.value.items) |->
     IF last.args.value.items[i].kind = "ref"
     THEN Obj([type |-> pre[last.args.value.items[i].oid].TYPE,
               id |-> pre[last.args.value.items[i].oid].id])
     ELSE Obj([type |-> Get(last.args.value.items[i], "type"),
               id |-> Get(last.args.value.items[i], "id")])]

C35_EditLinks ==
  IF last.args.key \in DOMAIN pre[Self].relationships
  THEN Get(pre[Self].relationships[last.args.key], "links")
  ELSE Undefined

\* POST, PATCH or DELETE on the url of the relationship, with the list
C35_EditRequest ==
  /\ Len(log) > 0
  /\ log[Len(log)].method =
       (CASE last.op = "add" -> "post"
          [] last.op = "reset" -> "patch"
          [] OTHER -> "delete")
  /\ log[Len(log)].url =
       (IF Get(C35_EditLinks, "self") # Undefined
        THEN Get(C35_EditLinks, "self")
        ELSE Str("/children/" \o KeyStr(pre[Self].id) \o "/relationships/" \o
                 last.args.key))
  /\ log[Len(log)].data = Obj([data |-> List(C35_Identifiers)])

\* C35: every invocation of reload, save, create, delete, change, add,
\* reset, remove or a bulk operation, and every fetch of an unfetched
\* Collection, sends exactly one request; when the request fails the
\* invocation fails and nothing more is sent.
C35_OneRequest ==
  /\ C35_Invoked =>
       /\ Len(log) = last.nlog + 1
       /\ last.resp = "fail" => last.out = "failed"
  /\ C35_Edited => C35_EditRequest
  /\ C35_CollectionFetch => Len(log) = last.nlog + 1
  /\ C35_CollectionFailed => last.out = "failed" /\ Len(log) = last.nlog

\* The invocation threw before its request
C35_ThrewAtCall == last.step = "call" /\ last.out = "threw"

\* What holds: one request, unless the invocation threw before sending,
\* and then none
C35_OneRequestUnlessThrown ==
  /\ C35_Invoked =>
       /\ Len(log) = last.nlog + (IF C35_ThrewAtCall THEN 0 ELSE 1)
       /\ last.resp = "fail" => last.out = "failed"
  /\ C35_Edited => C35_EditRequest
  /\ C35_CollectionFetch => Len(log) = last.nlog + 1
  /\ C35_CollectionFailed => last.out = "failed" /\ Len(log) = last.nlog

\* save() threw before any request
C35_SaveSentNothing ==
  /\ last.op = "save"
  /\ C35_ThrewAtCall
  /\ Len(log) = last.nlog


----------------------------------------------------------------------------
(* C36: what a failed request leaves behind *)

\* A fetch of a Collection ended with the failure of its request
C36_FetchFailed ==
  /\ last.op = "fetch"
  /\ last.step = "resume"
  /\ last.resp = "fail"
  /\ last.target \in Collections(heap)

C36_Unfetched ==
  /\ heap[last.target].data = Null
  /\ heap[last.target].next = Null
  /\ heap[last.target].previous = Null

\* No request of the Collection has been answered with a document
C36_NoneAnswered ==
  \A i \in 1..Len(log) :
     ("by" \in DOMAIN log[i] /\ log[i].by = last.target) =>
       log[i].answer # "ok"

\* fetch() called on a Collection without data sends a request
C36_FetchSends ==
  (/\ last.op = "fetch"
   /\ last.step = "call"
   /\ last.target \in Collections(heap)
   /\ pre[last.target].data = Null)
  => /\ last.out = "pending"
     /\ Len(log) = last.nlog + 1
     /\ log[Len(log)].by = last.target

C36_DeleteFailed == last.op = "delete" /\ last.out = "failed"

C36_DeleteKeepsId == C36_DeleteFailed => heap[Self] = pre[Self]

C36_WitnessDelete ==
  /\ C36_DeleteFailed
  /\ heap[Self].id = Str("1")

\* Of two overlapping fetches the first was answered and the second failed
C36_WitnessOverlap == C36_FetchFailed /\ ~C36_Unfetched

----------------------------------------------------------------------------
(* A resource that is redirected, re-seeded and followed *)

\* resource.follow(), up to its await
RedirectFollow ==
  /\ RoundIdle
  /\ IF canFollow(heap, Self)
     THEN Await("follow", NoArgs, heap, Self, followRequest(heap, Self))
     ELSE Return("follow", NoArgs, heap, "threw",
                 Str("Cannot follow without redirect"))

NextRedirect ==
  \/ RoundReload
  \/ \E r \in {OkResponse(b) : b \in ChildDocs}
              \cup {RedirectResponse, FailResponse} : ReloadRespond(r)
  \/ \E names \in {<<"name">>, <<>>} : RoundSave(names)
  \/ \E r \in SaveResponses : SaveRespond(r)
  \/ RedirectFollow
  \/ \E r \in FollowResponses : FollowRespond(r)

SpecRedirect == InitRoundTrip /\ [][NextRedirect]_vars

----------------------------------------------------------------------------
(* C37: the life of redirect *)

\* A reload or a save of the resource was answered 2xx.
C37_Answered2xx ==
  /\ last.op \in {"reload", "save"}
  /\ last.step = "resume"
  /\ last.resp = "ok"

\* The resource was re-seeded: the operation answered 2xx ended well.
C37_Reseeded == C37_Answered2xx /\ last.out = "ok"

\* Every reload or save that is answered 2xx, whether its re-seed ran or
\* threw before it, leaves redirect null.
C37_RedirectReset == C37_Answered2xx => heap[Self].redirect = Null

\* Every re-seed leaves redirect null.
C37_ReseedResets == C37_Reseeded => heap[Self].redirect = Null

\* redirect becomes non-null only when a reload is answered 3xx.
C37_SetBy3xx ==
  (heap[Self].redirect = Null /\ heap'[Self].redirect # Null)
    => (last'.op = "reload" /\ last'.resp = "redirect")

\* redirect becomes null again only by the re-seed of a reload or a save
\* that was answered 2xx (a re-seed that throws at a relationship has
\* written redirect before).
C37_ClearedByReseed ==
  (heap[Self].redirect # Null /\ heap'[Self].redirect = Null)
    => (last'.op \in {"reload", "save"} /\ last'.resp = "ok")

\* A follow() called after a re-seed throws the no-redirect error and sends
\* nothing.
C37_FollowAfterReseed ==
  (last.op = "follow" /\ prev.op \in {"reload", "save"}
     /\ prev.step = "resume" /\ prev.resp = "ok" /\ prev.out = "ok")
    => (last.out = "threw"
        /\ last.ret = Str("Cannot follow without redirect")
        /\ Len(log) = last.nlog)

\* C37: redirect is non-null only between a reload answered 3xx and the
\* next re-seed of the resource: it becomes non-null only by a 3xx reload,
\* every reload or save that is answered 2xx and ends well leaves it null,
\* and a follow() called after such a re-seed throws the no-redirect error
\* without a request, whatever was captured before.
C37_Redirect ==
  /\ [](C37_ReseedResets /\ C37_FollowAfterReseed)
  /\ [][C37_SetBy3xx /\ C37_ClearedByReseed]_vars

\* A save answered 2xx whose _postSave throws: redirect is kept.
C37_SaveKeptRedirect ==
  /\ C37_Answered2xx
  /\ last.op = "save"
  /\ last.out = "threw"
  /\ heap[Self].redirect = Location

\* follow() after a 3xx reload and then a 2xx reload: the no-redirect error
C37_Witness ==
  /\ last.op = "follow"
  /\ last.out = "threw"
  /\ prev.op = "reload" /\ prev.resp = "ok" /\ prev.out = "ok"
  /\ pre[Self].redirect = Null
  /\ Len(log) = 2
  /\ log[1].method = "get" /\ log[2].method = "get"

\* follow() after a 3xx reload and then a save that re-seeded
C37_WitnessSave ==
  /\ last.op = "follow"
  /\ last.out = "threw"
  /\ prev.op = "save" /\ prev.resp = "ok" /\ prev.out = "ok"
  /\ Len(log) = 2
  /\ log[1].method = "get" /\ log[2].method = "patch"

----------------------------------------------------------------------------
(* An attribute that is set while a reload or a save awaits its response *)

\* The key and value of a set that runs while a request is awaited
InterleaveSetArgs == {<<"name", Str("y")>>, <<"age", Num(5)>>}

\* A body of the server that has no attributes member
BareChildDoc ==
  Obj([data |-> Obj([type |-> Str("children"), id |-> Str("1")])])

\* resource.set(key, value) on an attribute, run by another flow between the
\* call of a reload or a save and the arrival of its response.  The record
\* of the awaited operation moves to prev until the response arrives.
InterleaveSet(key, value) ==
  /\ pend # <<>>
  /\ pend[1].op \in {"reload", "save"}
  /\ last.out = "pending"
  /\ nops < MaxSteps
  /\ key \notin DOMAIN heap[Self].relationships
  /\ heap' = set(heap, Self, key, value).h
  /\ last' = Called("set", [NoArgs EXCEPT !.key = key, !.value = value],
                    Self, "ok", Undefined)
  /\ pre' = heap
  /\ prev' = last
  /\ nops' = nops + 1
  /\ UNCHANGED <<pend, log>>

\* The awaited operation ended; its record is the last one again, and the
\* set that ran meanwhile is the one before it.
InterleaveDone(h, out, resp, body) ==
  /\ heap' = h
  /\ pend' = <<>>
  /\ last' = [IF last.op = "set" THEN prev ELSE last
                EXCEPT !.out = out, !.resp = resp, !.body = body,
                       !.step = "resume"]
  /\ prev' = IF last.op = "set" THEN last ELSE prev
  /\ UNCHANGED <<log, pre, nops>>

InterleaveApplied(r, resp, body) ==
  InterleaveDone(r.h, Outcome(r.err), resp, body)

\* The rest of reload and of save, on the resource as it is when the
\* response arrives
InterleaveRespond(response) ==
  /\ pend # <<>>
  /\ pend[1].op \in {"reload", "save"}
  /\ pend[1].op = "save" => response.kind # "redirect"
  /\ IF response.kind = "fail"
     THEN InterleaveDone(heap, "failed", "fail", Undefined)
     ELSE IF pend[1].op = "reload"
     THEN InterleaveApplied(reloaded(heap, Self, response), response.kind,
                            response.body)
     ELSE InterleaveApplied(postSave(heap, Self, response), "ok",
                            response.body)

NextInterleave ==
  \/ \E value \in {Str("y")} : RoundSet(value)
  \/ RoundReload
  \/ \E names \in {<<"name">>, <<>>} : RoundSave(names)
  \/ \E a \in InterleaveSetArgs : InterleaveSet(a[1], a[2])
  \/ \E r \in {OkResponse(b) : b \in SaveDocs \cup {BareChildDoc}}
              \cup {RedirectResponse, FailResponse} : InterleaveRespond(r)

SpecInterleave == InitRoundTrip /\ [][NextInterleave]_vars

----------------------------------------------------------------------------
(* C38: a set that runs while the response is awaited *)

\* A reload or a save was answered 2xx and its response was applied.
C38_Applied ==
  /\ last.op \in {"reload", "save"}
  /\ last.step = "resume"
  /\ last.resp = "ok"
  /\ last.out = "ok"

\* An attribute was set between the call and the response.
C38_SetMeanwhile ==
  /\ prev.op = "set"
  /\ prev.nlog = last.nlog + 1

\* The attributes member of the body that was answered
C38_BodyAttributes ==
  IF Truthy(Get(Get(last.body, "data"), "attributes"))
  THEN Get(Get(last.body, "data"), "attributes").f
  ELSE NoKeys

\* C38: when set(key, v) on an attribute runs while a save or a reload of
\* the resource awaits its response, and the response is a 2xx that is
\* applied, the attributes of the resource are exactly those of the
\* response body: the change made meanwhile is overwritten, not merged.
C38_Overwritten ==
  (C38_Applied /\ C38_SetMeanwhile)
    => heap[Self].attributes = C38_BodyAttributes

\* A save, a set of a new attribute meanwhile, and the answer applied: the
\* new attribute is gone.
C38_Witness ==
  /\ C38_Applied /\ C38_SetMeanwhile
  /\ last.op = "save"
  /\ prev.args.key = "age"
  /\ "age" \notin DOMAIN pre[Self].attributes
  /\ "age" \notin DOMAIN heap[Self].attributes
  /\ heap[Self].attributes = [name |-> Str("srv")]

\* A reload, a set of name meanwhile, and the answer applied
C38_WitnessReload ==
  /\ C38_Applied /\ C38_SetMeanwhile
  /\ last.op = "reload"
  /\ prev.args.key = "name" /\ prev.args.value = Str("y")
  /\ heap[Self].attributes = [name |-> Str("srv")]

\* A reload answered with a body that has no attributes: none are left
C38_WitnessBare ==
  /\ C38_Applied /\ C38_SetMeanwhile
  /\ heap[Self].attributes = NoKeys

\* A reload answered 3xx keeps the change that was made meanwhile.
C38_RedirectKeeps ==
  /\ last.op = "reload" /\ last.resp = "redirect" /\ last.out = "ok"
  /\ C38_SetMeanwhile
  /\ heap[Self].attributes["name"] = Str("y")

\* A save answered 2xx whose response is not applied keeps the change.
C38_NotApplied ==
  /\ last.op = "save" /\ last.resp = "ok" /\ last.out = "threw"
  /\ C38_SetMeanwhile
  /\ prev.args.key = "age"
  /\ "age" \in DOMAIN heap[Self].attributes

----------------------------------------------------------------------------
(* The requests of one connection, one after the other *)

\* const shared = { Authorization: 'Basic shared' }: an object of the
\* caller, and the auth capability () => shared that returns it every time
SharedHeaders == [Authorization |-> Str("Basic shared")]
SharedObject == [cls |-> "Object", f |-> SharedHeaders]
SharedFn == Fn(Ref(1))

\* apis.js 57: the mapping this.auth() returned, read off the heap when the
\* capability returns an object it holds
authMapping(h, result) ==
  IF result.kind = "ref" THEN Obj(h[result.oid].f) ELSE result

\* apis.js 58-66: the assignments to actualHeaders are assignments to the
\* object this.auth() returned
written(h, result, headers) ==
  IF result.kind = "ref" THEN [h EXCEPT ![result.oid].f = headers.f] ELSE h

requestConfig(h, a, args) ==
  config(h, a, args, authMapping(h, called(h[a].auth).v))

\* api.request(args), up to the await of axios.request
ConnectionRequest(a, args) ==
  /\ pend = <<>>
  /\ nops < MaxApiOps
  /\ IF called(heap[a].auth).err
     THEN /\ CollectionCalled("request", [NoArgs EXCEPT !.props = args], a,
                              "threw", Str("TypeError"))
          /\ UNCHANGED <<heap, pend, log>>
     ELSE Await("request", [NoArgs EXCEPT !.props = args],
                written(heap, called(heap[a].auth).v,
                        requestConfig(heap, a, args)["headers"]),
                a, requestConfig(heap, a, args))

\* api.setup(props), between two requests
ConnectionSetup(a, props) == pend = <<>> /\ Setup(a, props)

ConnectionApis ==
  {NoKeys, [auth |-> Str("MYTOKEN")], [auth |-> AuthFn], [auth |-> SharedFn]}

ConnectionSetups ==
  {NoKeys, [auth |-> Null], [auth |-> Str("")],
   [host |-> Str("https://b.com")], [auth |-> Str("MYTOKEN")]}

ConnectionArgs ==
  {Spread(Spread([url |-> Str("/path"), method |-> Str("get")], bulk), headers) :
     bulk \in {NoKeys, [bulk |-> Bool(TRUE)]},
     headers \in {NoKeys} \cup {[headers |-> x] : x \in RequestHeaders}}

InitConnection ==
  /\ heap \in {constructed(<<SharedObject>>, props) : props \in ConnectionApis}
  /\ pend = <<>>
  /\ log = <<>>
  /\ last = NoCall
  /\ pre = heap
  /\ prev = NoCall
  /\ nops = 0

NextConnection ==
  \/ \E a \in Apis(heap), props \in ConnectionSetups : ConnectionSetup(a, props)
  \/ \E a \in Apis(heap), args \in ConnectionArgs : ConnectionRequest(a, args)
  \/ \E response \in {Str("mock response")} : ApiRequestResolve(response)
  \/ \E e \in {Obj([message |-> Str("Network Error")])} : ApiRequestReject(e)

SpecConnection == InitConnection /\ [][NextConnection]_vars

----------------------------------------------------------------------------
(* C39: the headers of a request and the requests before it *)

\* api.request(args) was called and has handed its config to the transport.
C39_Sent == last.op = "request" /\ Len(log) = last.nlog + 1

\* The mapping the auth of the connection was configured to give
C39_Configured ==
  IF heap[last.target].auth = SharedFn THEN Obj(SharedHeaders)
  ELSE heap[last.target].auth.result

\* The headers a call builds of the configured auth mapping, its own bulk
\* flag and its own headers argument
C39_Own ==
  Obj(actualHeaders(C39_Configured,
                    Default(last.args.props, "bulk", Bool(FALSE)),
                    Default(last.args.props, "headers", Obj(NoKeys))))

\* C39: the headers a request sends are those built of the auth mapping,
\* the call's bulk flag and the call's own headers argument, whatever the
\* calls before it were given, for every auth configuration.
C39_HeadersOfThisCall == C39_Sent => log[Len(log)]["headers"] = C39_Own

\* The same, on the connections whose auth gives a new mapping on every
\* call: a bearer token, or a capability that builds its result.
C39_HeadersOfThisCallFresh ==
  (C39_Sent /\ heap[last.target].auth # SharedFn)
    => log[Len(log)]["headers"] = C39_Own

\* A request without headers of its own, sent after one that was given
\* X-Extra, carries X-Extra.
C39_Leaked ==
  /\ C39_Sent
  /\ "headers" \notin DOMAIN last.args.props
  /\ "X-Extra" \in DOMAIN log[Len(log)]["headers"].f
  /\ log[Len(log)]["headers"].f["Authorization"] = Str("Basic zzz")

\* Two requests on a connection with a bearer token: the second carries
\* nothing of the first.
C39_FreshKept ==
  /\ C39_Sent
  /\ Len(log) = 2
  /\ "X-Extra" \in DOMAIN log[1]["headers"].f
  /\ log[2]["headers"] =
       Obj([k \in {"Authorization", "Content-Type"} |->
              IF k = "Authorization" THEN Str("Bearer MYTOKEN")
              ELSE Str("application/vnd.api+json")])

----------------------------------------------------------------------------
(* C40: requests on a connection without auth *)

\* api.request(args) was called on a connection whose auth is null.
C40_RequestedWithoutAuth ==
  last.op = "request" /\ pre[last.target].auth = Null

\* C40: on a connection whose auth is still null after its construction
\* and after every setup call, request throws a TypeError when it calls
\* this.auth to build the headers and hands nothing to the transport: no
\* request has ever been sent from such a connection.
C40_NoAuthNoRequest ==
  /\ C40_RequestedWithoutAuth =>
       /\ last.out = "threw"
       /\ last.ret = Str("TypeError")
       /\ last.step = "call"
       /\ Len(log) = last.nlog
       /\ pend = <<>>
       /\ heap = pre
  /\ \A a \in Apis(heap) : heap[a].auth = Null => Len(log) = 0

\* Two setup calls that configure no auth, then a request: it throws.
C40_Witness ==
  /\ C40_RequestedWithoutAuth
  /\ last.out = "threw"
  /\ prev.op = "setup"
  /\ nops = 3
  /\ Len(log) = 0

\* A request on a connection as it was constructed, without props
C40_WitnessConstructed ==
  /\ C40_RequestedWithoutAuth
  /\ last.out = "threw"
  /\ nops = 1

====
